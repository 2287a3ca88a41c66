--------------------------------- MODULE Config --------------------------------
(***************************************************************************)
(* The configuration: three tables, the services that write them, and the work *)
(* that reads or writes all of them at once - an export, an import, a restore, *)
(* the reading of a core's version (crates/application/src/*_service.rs,        *)
(* export.rs, import.rs, restore.rs, config_backup.rs; crates/storage/src;      *)
(* crates/app/src/maintenance.rs, state/configuration.rs, state/cores.rs).      *)
(*                                                                         *)
(* The window's thread writes while workers write: every service call holds the *)
(* installation's shared lease, which only a restore's exclusive one excludes,  *)
(* so an import's calls, a core's save and the user's clicks come in any order. *)
(* A database call is one step (SqliteStorage's connection is behind a mutex).  *)
(***************************************************************************)
EXTENDS Integers, FiniteSets, SequencesExt, Functions

CONSTANTS
    CoreIds, ProxyIds, ProfileIds,
    Binaries,      \* the executables a core can point at
    Direct,        \* a profile without a proxy; also: no core
    Edited,        \* backup files that did not come from this installation
    Beginnings,    \* the configurations the program is started with
    MaxEdits,      \* bound: the calls the window makes
    MaxTasks       \* bound: the maintenance tasks

Names == {"suggested", "chosen", "blank"}
CoreOf == [exe : Binaries, name : Names]
ProxyOf == [keyed : BOOLEAN, secret : BOOLEAN]   \* keyed: its protocol needs a secret
ProfileOf == [core : CoreIds, proxy : ProxyIds \cup {Direct}, dir : {"default", "here", "gone"}]

Tables(I, R) == UNION {[S -> R] : S \in SUBSET I}
Configurations == [cores : Tables(CoreIds, CoreOf), proxies : Tables(ProxyIds, ProxyOf),
                   profiles : Tables(ProfileIds, ProfileOf)]
Empty == [cores |-> <<>>, proxies |-> <<>>, profiles |-> <<>>]

\* A file: the same records with their identifiers, each at its place in the file.
Rows(I, R) == [id : I, is : R]
IsList(rows, R) == DOMAIN rows \subseteq Nat /\ rows \in [DOMAIN rows -> R]
IsBackup(f) ==
    /\ f = [credentials |-> f.credentials, cores |-> f.cores, proxies |-> f.proxies,
            profiles |-> f.profiles]
    /\ f.credentials \in {"included", "excluded"}
    /\ IsList(f.cores, Rows(CoreIds, CoreOf)) /\ IsList(f.proxies, Rows(ProxyIds, ProxyOf))
    /\ IsList(f.profiles, Rows(ProfileIds, ProfileOf))
Ids(rows) == {rows[i].id : i \in DOMAIN rows}

\* A row that is gone; and what is stored once `r` is written under `id`.
Without(t, x) == Restrict(t, DOMAIN t \ {x})
Saved(t, id, r) == [x \in DOMAIN t \cup {id} |-> IF x = id THEN r ELSE t[x]]

\* What the database keeps of itself: see Resolves.
Sound(d) ==
    \A p \in DOMAIN d.profiles :
        /\ d.profiles[p].core \in DOMAIN d.cores
        /\ d.profiles[p].proxy \in DOMAIN d.proxies \cup {Direct}

\* Identifiers are drawn from finitely many; a file that is read parses, and what the
\* program starts with is what it stored.
ASSUME ConfigAssumption ==
    /\ IsFiniteSet(CoreIds) /\ IsFiniteSet(ProxyIds) /\ IsFiniteSet(ProfileIds)
    /\ \A f \in Edited : IsBackup(f)
    /\ Beginnings \subseteq Configurations
    /\ \A d \in Beginnings : Sound(d) /\ \A p \in DOMAIN d.profiles : d.profiles[p].dir # "gone"
    /\ MaxEdits \in Nat /\ MaxTasks \in Nat

VARIABLES
    db,        \* the database
    minted,    \* the identifiers there have been: a new one is none of them
    file,      \* the backup this installation exported last, if any
    task,      \* the maintenance marker and what its worker holds
    saves,     \* the workers that save a core, between their check and their write
    edits, tasks   \* bounds

vars == <<db, minted, file, task, saves, edits, tasks>>

NoFile == [credentials |-> "included", cores |-> <<>>, proxies |-> <<>>, profiles |-> <<>>]
NoReport == [added |-> {}, missing_core |-> {}, missing_proxy |-> {}, differing |-> {}, failed |-> {}]
NoTask == [kind |-> "none", at |-> "answered", from |-> NoFile, have |-> Empty, plan |-> NoFile,
           report |-> NoReport, core |-> Direct, calm |-> TRUE]
Ids3 == CoreIds \cup ProxyIds \cup ProfileIds
TaskKinds == {"none", "export", "import", "restore", "redetect"}
Stages == {"file", "cores", "proxies", "profiles", "writing", "adding cores",
           "adding proxies", "adding profiles", "answered"}
Reports == [added : SUBSET Ids3, missing_core : SUBSET Ids3, missing_proxy : SUBSET Ids3,
            differing : SUBSET Ids3, failed : SUBSET Ids3]

TypeOK ==
    /\ db \in Configurations /\ minted \subseteq Ids3
    /\ \A p \in DOMAIN db.profiles : db.profiles[p].dir # "gone"
    /\ DOMAIN db.cores \cup DOMAIN db.proxies \cup DOMAIN db.profiles \subseteq minted
    /\ IsBackup(file) /\ IsBackup(task.from) /\ IsBackup(task.plan)
    /\ task = [kind |-> task.kind, at |-> task.at, from |-> task.from, have |-> task.have,
               plan |-> task.plan, report |-> task.report, core |-> task.core, calm |-> task.calm]
    /\ task.kind \in TaskKinds /\ task.at \in Stages /\ task.calm \in BOOLEAN
    /\ task.have \in Configurations /\ task.core \in CoreIds \cup {Direct}
    /\ task.report \in Reports
    /\ saves \subseteq [id : CoreIds, is : CoreOf]
    /\ edits \in 0..MaxEdits /\ tasks \in 0..MaxTasks

Init ==
    /\ db \in Beginnings /\ minted = DOMAIN db.cores \cup DOMAIN db.proxies \cup DOMAIN db.profiles
    /\ file = NoFile /\ task = NoTask /\ saves = {} /\ edits = 0 /\ tasks = 0

-----------------------------------------------------------------------------
(* The database *)

\* profiles.core_id and profiles.proxy_id are foreign keys, enforced.
Resolves_Never(d, r) == TRUE
Resolves(d, r) == r.core \in DOMAIN d.cores /\ r.proxy \in DOMAIN d.proxies \cup {Direct}

\* ON DELETE RESTRICT, and the services' own question before it.
CoreUsed(d, c) == \E p \in DOMAIN d.profiles : d.profiles[p].core = c
ProxyUsed(d, x) == \E p \in DOMAIN d.profiles : d.profiles[p].proxy = x

SavedCore(d, id, r) == [d EXCEPT !.cores = Saved(@, id, r)]
SavedProxy(d, id, r) == [d EXCEPT !.proxies = Saved(@, id, r)]
InsertedProfile(d, id, r) == [d EXCEPT !.profiles = Saved(@, id, r)]
Insertable(d, id, r) == id \notin DOMAIN d.profiles /\ Resolves(d, r)

\* validate_core, and validate_proxy for a proxy whose secret is its protocol's key.
ValidCore(r) == r.name # "blank"
ValidProxy(r) == r.keyed => r.secret

-----------------------------------------------------------------------------
(* Leases *)

Exclusive == task.kind = "restore" /\ task.at # "answered"
SharedFree == saves = {} /\ ~(task.kind = "redetect" /\ task.at = "writing")

-----------------------------------------------------------------------------
(* What the window writes, one service call to a click *)

\* No click while a restore is at work; the bound is not the code's.
Clicks == edits < MaxEdits /\ edits' = edits + 1 /\ ~Exclusive

Click(d, new) ==
    /\ db' = d /\ minted' = minted \cup new
    /\ task' = [task EXCEPT !.calm = FALSE]
    /\ UNCHANGED <<file, saves, tasks>>

CreateProfile(p, r) ==
    /\ p \notin minted /\ r.dir = "default" /\ Insertable(db, p, r)
    /\ Click(InsertedProfile(db, p, r), {p})

DuplicateProfile(p, q) ==
    /\ p \in DOMAIN db.profiles /\ q \notin minted
    /\ Click(InsertedProfile(db, q, [db.profiles[p] EXCEPT !.dir = "default"]), {q})

UpdateProfile(p, r) ==
    /\ p \in DOMAIN db.profiles /\ Resolves(db, r) /\ r.dir = db.profiles[p].dir
    /\ Click(InsertedProfile(db, p, r), {})

DeleteProfile(p) ==
    /\ p \in DOMAIN db.profiles
    /\ Click([db EXCEPT !.profiles = Without(@, p)], {})

CreateProxy(x, r) == x \notin minted /\ ValidProxy(r) /\ Click(SavedProxy(db, x, r), {x})

UpdateProxy(x, r) == x \in DOMAIN db.proxies /\ ValidProxy(r) /\ Click(SavedProxy(db, x, r), {})

DeleteProxy(x) ==
    /\ x \in DOMAIN db.proxies /\ ~ProxyUsed(db, x)
    /\ Click([db EXCEPT !.proxies = Without(@, x)], {})

DeleteCore(c) ==
    /\ c \in DOMAIN db.cores /\ ~CoreUsed(db, c)
    /\ Click([db EXCEPT !.cores = Without(@, c)], {})

\* A core's save checks, then starts the binary and waits for its version, then writes.
AddCore(c, r) ==
    /\ c \notin minted \cup {s.id : s \in saves}
    /\ ValidCore(r) /\ \A d \in DOMAIN db.cores : db.cores[d].exe # r.exe
    /\ saves' = saves \cup {[id |-> c, is |-> r]}
    /\ UNCHANGED <<db, minted, file, task, tasks>>

UpdateCore(c, r) ==
    /\ c \in DOMAIN db.cores /\ ValidCore(r)
    /\ saves' = saves \cup {[id |-> c, is |-> r]}
    /\ UNCHANGED <<db, minted, file, task, tasks>>

\* The write, an upsert; or a version that could not be read.
CoreSaved(s) ==
    /\ saves' = saves \ {s}
    /\ \/ UNCHANGED <<db, minted>>
       \/ db' = SavedCore(db, s.id, s.is) /\ minted' = minted \cup {s.id}
    /\ task' = [task EXCEPT !.calm = FALSE]
    /\ UNCHANGED <<file, edits, tasks>>

User ==
    /\ Clicks
    /\ \/ \E p \in ProfileIds, r \in ProfileOf : CreateProfile(p, r) \/ UpdateProfile(p, r)
       \/ \E p, q \in ProfileIds : DuplicateProfile(p, q)
       \/ \E p \in ProfileIds : DeleteProfile(p)
       \/ \E x \in ProxyIds, r \in ProxyOf : CreateProxy(x, r) \/ UpdateProxy(x, r)
       \/ \E x \in ProxyIds : DeleteProxy(x)
       \/ \E c \in CoreIds : DeleteCore(c)
       \/ \E c \in CoreIds, r \in CoreOf : AddCore(c, r) \/ UpdateCore(c, r)

-----------------------------------------------------------------------------
(* A maintenance task's worker: it reads the three tables one after another, and *)
(* anyone may write between two reads.                                            *)

Begin(kind, at, c) ==
    /\ task.kind = "none" /\ tasks < MaxTasks /\ tasks' = tasks + 1
    /\ task' = [NoTask EXCEPT !.kind = kind, !.at = at, !.core = c]
    /\ UNCHANGED <<db, minted, file, saves, edits>>

BeginExport == Begin("export", "cores", Direct)
BeginImport == Begin("import", "file", Direct)
BeginRestore == SharedFree /\ Begin("restore", "file", Direct)
BeginRedetect(c) == c \in DOMAIN db.cores /\ ~Exclusive /\ Begin("redetect", "cores", c)

Works(kinds, at) == task.kind \in kinds /\ task.at = at
Aside == UNCHANGED <<minted, saves, edits, tasks>>
Answer == task' = [task EXCEPT !.at = "answered"]

\* read_config_backup: not there, not one of ours, another version, or read.
ReadFile ==
    /\ Works({"import", "restore"}, "file")
    /\ \/ Answer
       \/ \E f \in Edited \cup {file} : task' = [task EXCEPT !.from = f, !.at = "cores"]
    /\ UNCHANGED <<db, file>> /\ Aside

ReadCores ==
    /\ Works({"export", "import", "restore"}, "cores")
    /\ task' = [task EXCEPT !.have.cores = db.cores, !.at = "proxies"]
    /\ UNCHANGED <<db, file>> /\ Aside

ReadProxies ==
    /\ Works({"export", "import", "restore"}, "proxies")
    /\ task' = [task EXCEPT !.have.proxies = db.proxies, !.at = "profiles"]
    /\ UNCHANGED <<db, file>> /\ Aside

\* A table could not be read: the error is the whole answer, and what was written stays.
Unreadable ==
    /\ task.kind \in {"export", "import", "restore"}
    /\ \/ task.at \in {"cores", "proxies", "profiles"}
       \/ task.at = "adding cores" /\ DOMAIN task.plan.cores = {}
       \/ task.at = "adding proxies" /\ DOMAIN task.plan.proxies = {}
    /\ task' = [NoTask EXCEPT !.kind = task.kind, !.calm = task.calm]
    /\ UNCHANGED <<db, file>> /\ Aside

\* ConfigBackup::build: Excluded takes the secrets out of the proxies.
Kept(credentials, r) == [r EXCEPT !.secret = @ /\ credentials = "included"]
AsRows(t) == LET order == SetToSeq(DOMAIN t) IN [i \in DOMAIN order |-> [id |-> order[i], is |-> t[order[i]]]]
Backup(have, credentials) ==
    [credentials |-> credentials, cores |-> AsRows(have.cores),
     proxies |-> AsRows([x \in DOMAIN have.proxies |-> Kept(credentials, have.proxies[x])]),
     profiles |-> AsRows(have.profiles)]

\* The write replaces the file whole, and may say even then that it failed, or leaves it.
Export ==
    /\ Works({"export"}, "profiles")
    /\ Answer
    /\ \/ \E credentials \in {"included", "excluded"} :
              file' = Backup([task.have EXCEPT !.profiles = db.profiles], credentials)
       \/ UNCHANGED file
    /\ UNCHANGED db /\ Aside

-----------------------------------------------------------------------------
(* Import *)

\* The directory rule: one that is not on this machine becomes this profile's own.
Repointed_Not(r) == r
Repointed(r) == [r EXCEPT !.dir = IF @ = "gone" THEN "default" ELSE @]

Arriving_All(rows, held) == rows
Arriving(rows, held) == Restrict(rows, {i \in DOMAIN rows : rows[i].id \notin DOMAIN held})

\* What is held already and is not the file's copy, the directory of a profile aside.
SameProfile(a, b) == [a EXCEPT !.dir = b.dir] = b
Differing(rows, held) ==
    {rows[i].id : i \in {i \in DOMAIN rows : /\ rows[i].id \in DOMAIN held
                                             /\ rows[i].is # held[rows[i].id]}}
DifferingProfiles(rows, held) ==
    {rows[i].id : i \in {i \in DOMAIN rows : /\ rows[i].id \in DOMAIN held
                                             /\ ~SameProfile(rows[i].is, held[rows[i].id])}}

\* The cores and the proxies a profile of the file may name.
Known(from, have) == DOMAIN have.cores \cup Ids(from.cores)
Reachable(from, have) == DOMAIN have.proxies \cup Ids(from.proxies) \cup {Direct}
Whole(from, have) ==
    LET new == Arriving(from.profiles, have.profiles)
    IN  Restrict(new, {i \in DOMAIN new : new[i].is.core \in Known(from, have)})
Landed(r, from, have) == Repointed([r EXCEPT !.proxy = IF @ \in Reachable(from, have) THEN @ ELSE Direct])

PlanImport(from, have) ==
    LET new == Arriving(from.profiles, have.profiles)
        whole == Whole(from, have)
    IN  [plan |-> [from EXCEPT !.cores = Arriving(@, have.cores), !.proxies = Arriving(@, have.proxies),
                               !.profiles = [i \in DOMAIN whole |->
                                                [id |-> whole[i].id, is |-> Landed(whole[i].is, from, have)]]],
         report |-> [NoReport EXCEPT
             !.differing = Differing(from.cores, have.cores) \cup Differing(from.proxies, have.proxies)
                           \cup DifferingProfiles(from.profiles, have.profiles),
             !.missing_core = {new[i].id : i \in DOMAIN new \ DOMAIN whole},
             !.missing_proxy = {whole[i].id : i \in {i \in DOMAIN whole :
                                                     whole[i].is.proxy \notin Reachable(from, have)}}]]

Import ==
    /\ Works({"import"}, "profiles")
    /\ LET have == [task.have EXCEPT !.profiles = db.profiles]
           decided == PlanImport(task.from, have)
       IN  task' = [task EXCEPT !.have = have, !.plan = decided.plan, !.report = decided.report,
                                !.at = "adding cores"]
    /\ UNCHANGED <<db, file>> /\ Aside

\* An item the database refuses, or could not write, is named and does not stop the rest.
Wrote(d, id, rest) ==
    /\ db' = d /\ minted' = minted \cup {id}
    /\ task' = [task EXCEPT !.plan = rest, !.report.added = @ \cup {id}]
Refused_Silently(id, rest) ==
    UNCHANGED <<db, minted>> /\ task' = [task EXCEPT !.plan = rest]
Refused(id, rest) ==
    /\ UNCHANGED <<db, minted>>
    /\ task' = [task EXCEPT !.plan = rest, !.report.failed = @ \cup {id}]

\* The place in the file that is next.
Firsts(rows) == {i \in DOMAIN rows : \A j \in DOMAIN rows : i <= j}

\* Before the next kind, what is stored is listed again: here is that list.
AddCores ==
    /\ Works({"import"}, "adding cores")
    /\ \/ /\ DOMAIN task.plan.cores = {}
          /\ task' = [task EXCEPT !.have.cores = db.cores, !.at = "adding proxies"]
          /\ UNCHANGED <<db, minted>>
       \/ \E i \in Firsts(task.plan.cores) :
            LET r == task.plan.cores[i]
                rest == [task.plan EXCEPT !.cores = Without(@, i)]
            IN  \/ ValidCore(r.is) /\ Wrote(SavedCore(db, r.id, r.is), r.id, rest)
                \/ Refused(r.id, rest)
    /\ UNCHANGED <<file, saves, edits, tasks>>

AddProxies ==
    /\ Works({"import"}, "adding proxies")
    /\ \/ /\ DOMAIN task.plan.proxies = {}
          /\ task' = [task EXCEPT !.have.proxies = db.proxies, !.at = "adding profiles"]
          /\ UNCHANGED <<db, minted>>
       \/ \E i \in Firsts(task.plan.proxies) :
            LET r == task.plan.proxies[i]
                rest == [task.plan EXCEPT !.proxies = Without(@, i)]
            IN  \/ ValidProxy(r.is) /\ Wrote(SavedProxy(db, r.id, r.is), r.id, rest)
                \/ Refused(r.id, rest)
    /\ UNCHANGED <<file, saves, edits, tasks>>

AddProfile(r, rest) ==
    LET here == task.have
        lost == r.is.proxy \notin DOMAIN here.proxies \cup {Direct}
        arriving == IF lost THEN [r.is EXCEPT !.proxy = Direct] ELSE r.is
        notes == [task.report EXCEPT !.missing_proxy = IF lost THEN @ \cup {r.id} ELSE @]
    IN  IF r.is.core \notin DOMAIN here.cores
        THEN /\ task' = [task EXCEPT !.plan = rest, !.report.missing_core = @ \cup {r.id}]
             /\ UNCHANGED <<db, minted>>
        ELSE \/ /\ Insertable(db, r.id, arriving)
                /\ db' = InsertedProfile(db, r.id, arriving) /\ minted' = minted \cup {r.id}
                /\ task' = [task EXCEPT !.plan = rest, !.report = [notes EXCEPT !.added = @ \cup {r.id}]]
             \/ /\ UNCHANGED <<db, minted>>
                /\ task' = [task EXCEPT !.plan = rest, !.report = [notes EXCEPT !.failed = @ \cup {r.id}]]

AddProfiles ==
    /\ Works({"import"}, "adding profiles")
    /\ \/ DOMAIN task.plan.profiles = {} /\ Answer /\ UNCHANGED <<db, minted>>
       \/ \E i \in Firsts(task.plan.profiles) :
            AddProfile(task.plan.profiles[i], [task.plan EXCEPT !.profiles = Without(@, i)])
    /\ UNCHANGED <<file, saves, edits, tasks>>

NeedsAttention(report) == report.failed \cup report.differing \cup report.missing_core \cup report.missing_proxy # {}

-----------------------------------------------------------------------------
(* Restore *)

Repeats(rows) == \E i, j \in DOMAIN rows : i # j /\ rows[i].id = rows[j].id

Dangles_Cores(f) == \E i \in DOMAIN f.profiles : f.profiles[i].is.core \notin Ids(f.cores)
Dangles(f) ==
    \E i \in DOMAIN f.profiles :
        \/ f.profiles[i].is.core \notin Ids(f.cores)
        \/ f.profiles[i].is.proxy \notin Ids(f.proxies) \cup {Direct}

Restorable(f, have, mode) ==
    /\ mode = "when empty" => have = Empty
    /\ ~Repeats(f.cores) /\ ~Repeats(f.proxies) /\ ~Repeats(f.profiles)
    /\ \A i \in DOMAIN f.cores : ValidCore(f.cores[i].is)
    /\ \A i \in DOMAIN f.proxies : ValidProxy(f.proxies[i].is)
    /\ ~Dangles(f)

PlanRestore(f) ==
    [f EXCEPT !.profiles = [i \in DOMAIN @ |-> [id |-> @[i].id, is |-> Repointed(@[i].is)]]]

Restore ==
    /\ Works({"restore"}, "profiles")
    /\ LET have == [task.have EXCEPT !.profiles = db.profiles]
       IN  \/ /\ \E mode \in {"when empty", "replace"} : Restorable(task.from, have, mode)
              /\ task' = [task EXCEPT !.have = have, !.plan = PlanRestore(task.from), !.at = "writing"]
           \/ /\ \E mode \in {"when empty", "replace"} : ~Restorable(task.from, have, mode)
              /\ task' = [task EXCEPT !.have = have, !.at = "answered"]
    /\ UNCHANGED <<db, file>> /\ Aside

\* The transaction: three deletes, the upserts, the inserts.  A row that refuses
\* takes the whole of it back.
LastOf(rows, x) == CHOOSE i \in DOMAIN rows : /\ rows[i].id = x
                                              /\ \A j \in DOMAIN rows : rows[j].id = x => j <= i
Upserted(rows) == [x \in Ids(rows) |-> rows[LastOf(rows, x)].is]
Replacement(f) == [cores |-> Upserted(f.cores), proxies |-> Upserted(f.proxies), profiles |-> Upserted(f.profiles)]
Fits(f) == /\ ~Repeats(f.profiles)
           /\ \A i \in DOMAIN f.profiles : Resolves(Replacement(f), f.profiles[i].is)

Replace ==
    /\ Works({"restore"}, "writing")
    /\ IF Fits(task.plan)
       THEN \/ /\ db' = Replacement(task.plan)
               /\ minted' = minted \cup Ids(task.plan.cores) \cup Ids(task.plan.proxies) \cup Ids(task.plan.profiles)
               /\ task' = [task EXCEPT !.at = "answered", !.report.added =
                               Ids(task.plan.cores) \cup Ids(task.plan.proxies) \cup Ids(task.plan.profiles)]
            \/ Answer /\ UNCHANGED <<db, minted>>
       ELSE /\ task' = [task EXCEPT !.at = "answered", !.report.failed = Ids(task.plan.profiles)]
            /\ UNCHANGED <<db, minted>>
    /\ UNCHANGED <<file, saves, edits, tasks>>

-----------------------------------------------------------------------------
(* A core's version read again *)

RedetectReads ==
    /\ Works({"redetect"}, "cores")
    /\ \/ Answer
       \/ /\ task.core \in DOMAIN db.cores
          /\ task' = [task EXCEPT !.have.cores = db.cores, !.at = "writing"]
    /\ UNCHANGED <<db, file>> /\ Aside

\* The record as it was read, with the new version: an upsert.
RedetectWrites ==
    /\ Works({"redetect"}, "writing")
    /\ db' \in {db, SavedCore(db, task.core, task.have.cores[task.core])}
    /\ Answer
    /\ UNCHANGED file /\ Aside

Finish ==
    /\ task.kind # "none" /\ task.at = "answered"
    /\ task' = NoTask
    /\ UNCHANGED <<db, file>> /\ Aside

\* The program dies and is started again: the database and the file are what is left.
Crash ==
    /\ task.kind # "none" \/ saves # {}
    /\ task' = NoTask /\ saves' = {}
    /\ UNCHANGED <<db, minted, file, edits, tasks>>

Worker ==
    \/ BeginExport \/ BeginImport \/ BeginRestore \/ \E c \in CoreIds : BeginRedetect(c)
    \/ ReadFile \/ ReadCores \/ ReadProxies \/ Unreadable \/ Export
    \/ Import \/ AddCores \/ AddProxies \/ AddProfiles
    \/ Restore \/ Replace \/ RedetectReads \/ RedetectWrites
    \/ Finish

Next == User \/ (\E s \in saves : CoreSaved(s)) \/ Worker \/ Crash

Spec == Init /\ [][Next]_vars

-----------------------------------------------------------------------------
(* Properties *)

\* A stored profile always names a core and a proxy that are stored, whatever an
\* import, a restore, a deletion or a failure did in between.
NeverDangles ==
    /\ TypeOK
    /\ Sound(db)

\* An import never changes and never removes a record that was there when it read
\* the tables: `kept` means kept (import.rs:143).
Importing == task.kind = "import" /\ task'.kind = "import" /\ task.plan # task'.plan
ImportKeeps ==
    [][Importing =>
        /\ \A c \in DOMAIN db.cores : c \in DOMAIN task.have.cores => db'.cores[c] = db.cores[c]
        /\ \A x \in DOMAIN db.proxies : x \in DOMAIN task.have.proxies => db'.proxies[x] = db.proxies[x]
        /\ \A p \in DOMAIN db.profiles : db'.profiles[p] = db.profiles[p]]_vars

\* An import that ends with nothing to tell, and beside which nobody wrote, left
\* everything the file holds in the database, the directories aside: that is when
\* the window says so in passing (state/configuration.rs:290, import.rs:100).
AllIn(rows, t) == \A i \in DOMAIN rows : rows[i].id \in DOMAIN t /\ rows[i].is = t[rows[i].id]
SilenceMeansAll ==
    (task.kind = "import" /\ task.at = "answered" /\ task.from # NoFile /\ task.calm /\ ~NeedsAttention(task.report)
        /\ ~Repeats(task.from.cores) /\ ~Repeats(task.from.proxies)) =>
        /\ AllIn(task.from.cores, db.cores) /\ AllIn(task.from.proxies, db.proxies)
        /\ \A i \in DOMAIN task.from.profiles :
               LET r == task.from.profiles[i]
               IN  r.id \in DOMAIN db.profiles /\ SameProfile(r.is, db.profiles[r.id])

\* A restore's plan, once accepted, is never one the database refuses, and what it
\* replaces the configuration with is the file's, each record once: nothing of the
\* old one is deleted for a file that cannot be stored (restore.rs:142).
RestoreLands ==
    task.kind = "restore" =>
        /\ task.at = "writing" => Fits(task.plan)
        /\ (task.at = "answered" /\ task.report.added # {} /\ task.calm) =>
               /\ DOMAIN db.cores = Ids(task.from.cores) /\ DOMAIN db.proxies = Ids(task.from.proxies)
               /\ AllIn(task.from.cores, db.cores) /\ AllIn(task.from.proxies, db.proxies)
               /\ DOMAIN db.profiles = Ids(task.from.profiles)

\* False of the code: a core whose deletion came between the check of a save, or
\* of a re-detection, and its write comes back (core_service.rs:195, :226).
DeletedStaysDeleted ==
    [][\A c \in minted \cap CoreIds :
        (c \notin DOMAIN db.cores /\ c \in DOMAIN db'.cores) => task.kind \in {"import", "restore"}]_vars
=============================================================================
