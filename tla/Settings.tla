------------------------------ MODULE Settings ------------------------------
\* The settings of an installation (crates/app/src/settings.rs): what a start
\* reads from the environment and from the configuration file, the move of an
\* older file out of the platform's configuration directory, and what each
\* control of the window writes. Four stored fields stand for the nine, one for
\* each way a field is resolved: a path the environment may decide
\* (xray_executable, as echo_url), a switch of known words (system_proxy), a
\* switch that is on unless the file says "off" (status_page), and a choice
\* with no variable (exit_mode, as theme, lang and sidebar).
EXTENDS Integers, FiniteSets

CONSTANTS Words,         \* what a field may hold, a word this build knows or not
          Documents,     \* the documents a hand or an earlier build left
          Environments,  \* the environments a start may be given
          Typed,         \* the paths a reader may type
          MaxStarts, MaxEdits, MaxSaves

VARIABLES disk,    \* what each file holds
          run,     \* the process: what it read, and where its start stands
          starts, edits, saves

settings == <<disk, run, starts, edits, saves>>

None == "none"
Dirs == {"home", "other"}
Files == Dirs \cup {"named", "legacy"}

Absent == [kind |-> "absent"]
Broken == [kind |-> "broken"]
Doc(s) == [kind |-> "doc", stored |-> s]

Modes == {"ask", "background", "exit"}

Values == [data_dir : Words, xray_executable : Words, system_proxy : Words,
           status_page : Words, exit_mode : Words]

ASSUME SettingsAssumption ==
  /\ {None, "bin/xray", "on", "off"} \cup Dirs \cup Modes \subseteq Words
  /\ Documents \subseteq Values /\ Typed \subseteq Words
  /\ Environments \subseteq [data_dir : Dirs \cup {None}, config : BOOLEAN,
                             xray_executable : Words, system_proxy : Words]

Default == [data_dir |-> None, xray_executable |-> None, system_proxy |-> None,
            status_page |-> None, exit_mode |-> None]

(***************************************************************************)
(* Where a value comes from.                                               *)
(***************************************************************************)
DataDir(env) == IF env.data_dir = None THEN "home" ELSE env.data_dir
ConfigPath(env) == IF env.config THEN "named" ELSE DataDir(env)

\* A word this build does not know is not a value.
SwitchOn(word) == IF word \in {"on", "off"} THEN word ELSE None
OrElse(first, second) == IF first # None THEN first ELSE second

Resolve(s, env) ==
  [xray_executable |->
     OrElse(OrElse(env.xray_executable, s.xray_executable), "bin/xray"),
   system_proxy |->
     OrElse(OrElse(SwitchOn(env.system_proxy), SwitchOn(s.system_proxy)), "off"),
   status_page |-> IF s.status_page = "off" THEN "off" ELSE "on",
   exit_mode |-> IF s.exit_mode \in Modes THEN s.exit_mode ELSE "ask"]

\* What a start finds: the settings, whether a file could not be read, and
\* whether the older file has to be moved.
Found(s, error, moves) == [stored |-> s, error |-> error, moves |-> moves]

ReadStored(d, env) ==
  LET config == d[ConfigPath(env)]
      legacy == d["legacy"]
  IN CASE config.kind = "doc" -> Found(config.stored, FALSE, FALSE)
       [] config.kind = "broken" -> Found(Default, TRUE, FALSE)
       [] config.kind = "absent" /\ (env.config \/ legacy.kind = "absent") ->
            Found(Default, FALSE, FALSE)
       [] config.kind = "absent" /\ ~env.config /\ legacy.kind = "broken" ->
            Found(Default, TRUE, FALSE)
       [] OTHER ->
            IF legacy.stored.data_dir \in {None, DataDir(env)}
            THEN Found([legacy.stored EXCEPT !.data_dir = None], FALSE, TRUE)
            ELSE Found(legacy.stored, FALSE, FALSE)

Down == [pc |-> "down"]

\* The row of a setting the environment may decide. A variable that holds a word
\* this build does not know decides nothing.
Known(key, value) == IF key = "system_proxy" THEN SwitchOn(value) ELSE value
FromEnvironment(key) == Known(key, run.env[key]) # None
Source(key) == CASE FromEnvironment(key) -> "environment"
                 [] ~FromEnvironment(key) /\ Known(key, run.stored[key]) # None -> "file"
                 [] OTHER -> "default"
Shadowed(key) == IF FromEnvironment(key) THEN Known(key, run.stored[key]) ELSE None
Row(key) == [value |-> run.used[key], source |-> Source(key),
             shadowed |-> Shadowed(key)]

Init ==
  /\ disk \in [Files -> {Absent} \cup {Doc(s) : s \in Documents}]
  /\ disk["named"] = Absent /\ disk["other"] = Absent
  /\ run = Down /\ starts = 0 /\ edits = 0 /\ saves = 0

(***************************************************************************)
(* A start reads, and moves the older file in two steps it may die between.*)
(***************************************************************************)
Load(env) ==
  /\ run.pc = "down" /\ starts < MaxStarts
  /\ starts' = starts + 1
  /\ LET found == ReadStored(disk, env)
     IN run' = [pc |-> IF found.moves THEN "moving" ELSE "up", env |-> env,
                stored |-> found.stored, error |-> found.error,
                used |-> Resolve(found.stored, env), touched |-> FALSE, unsaid |-> {}]
  /\ UNCHANGED <<disk, edits, saves>>

MoveWritten ==
  /\ run.pc = "moving"
  /\ disk' = [disk EXCEPT ![ConfigPath(run.env)] = Doc(run.stored)]
  /\ run' = [run EXCEPT !.pc = "removing"]
  /\ UNCHANGED <<starts, edits, saves>>

\* The values read stay in force, and the older file stays where it is. A write may
\* fail before the new file is in its place, or after.
MoveNotWritten ==
  /\ run.pc = "moving"
  /\ \/ disk' = [disk EXCEPT ![ConfigPath(run.env)] = Doc(run.stored)]
     \/ UNCHANGED disk
  /\ run' = [run EXCEPT !.pc = "up"]
  /\ UNCHANGED <<starts, edits, saves>>

\* The answer of the removal is not looked at.
LegacyRemoved ==
  /\ run.pc = "removing"
  /\ \E gone \in BOOLEAN :
       disk' = [disk EXCEPT !["legacy"] = IF gone THEN Absent ELSE @]
  /\ run' = [run EXCEPT !.pc = "up"]
  /\ UNCHANGED <<starts, edits, saves>>

Ends ==
  /\ run.pc # "down"
  /\ run' = Down
  /\ UNCHANGED <<disk, starts, edits, saves>>

(***************************************************************************)
(* What others do to the files.                                            *)
(***************************************************************************)
HandEdit ==
  /\ edits < MaxEdits /\ run.pc \in {"down", "up"}
  /\ \E f \in Files, c \in {Absent, Broken} \cup {Doc(s) : s \in Documents} :
       /\ c # disk[f]
       /\ disk' = [disk EXCEPT ![f] = c]
  /\ edits' = edits + 1
  /\ run' = IF run.pc = "up" THEN [run EXCEPT !.touched = TRUE] ELSE run
  /\ UNCHANGED <<starts, saves>>

\* `--diagnostics`, or a second copy on its way to being refused: both load the
\* settings before anything asks whose installation it is.
SecondLoad(env) ==
  /\ run.pc = "up" /\ starts < MaxStarts
  /\ LET found == ReadStored(disk, env)
     IN /\ found.moves
        /\ disk' = [disk EXCEPT ![ConfigPath(env)] = Doc(found.stored),
                                !["legacy"] = Absent]
  /\ run' = [run EXCEPT !.touched = @ \/ env # run.env]
  /\ starts' = starts + 1
  /\ UNCHANGED <<edits, saves>>

(***************************************************************************)
(* What the window writes: the file first, and memory when that worked.    *)
(* `data_dir` is read and never written. A write that fails before its     *)
(* file is in place changes nothing but the banner; one that fails after,  *)
(* when the directory cannot be synced, has replaced the file and leaves   *)
(* memory as it was (atomic_file.rs:22).                                   *)
(***************************************************************************)
\* MUTANT: a file that could not be read is saved over.
MayWriteAnyway == run.pc = "up" /\ saves < MaxSaves

MayWrite == run.pc = "up" /\ ~run.error /\ saves < MaxSaves

Writes(s) == disk' = [disk EXCEPT ![ConfigPath(run.env)] =
                                    Doc([s EXCEPT !.data_dir = None])]

\* `unsaid` is for the properties: what a save that was refused left in the file.
Saved == run'.unsaid = {}
Store(s, used) ==
  /\ MayWrite
  /\ Writes(s)
  /\ \/ run' = [run EXCEPT !.stored = s, !.used = used, !.unsaid = {}]
     \/ run' = [run EXCEPT !.unsaid = {s}]
  /\ saves' = saves + 1
  /\ UNCHANGED <<starts, edits>>

\* The dialog starts with the value of the row, so that one can be saved too.
SetPath(value) ==
  LET s == [run.stored EXCEPT !.xray_executable = value]
  IN Store(s, [run.used EXCEPT
                 !.xray_executable = Resolve(s, run.env).xray_executable])

\* MUTANT: the switch is believed, whatever the variable says.
SetSystemProxyBlind(on) ==
  Store([run.stored EXCEPT !.system_proxy = IF on THEN "on" ELSE None],
        [run.used EXCEPT !.system_proxy = IF on THEN "on" ELSE "off"])

\* The window refuses the click while the variable decides.
SetSystemProxy(on) ==
  /\ SwitchOn(run.env.system_proxy) = None
  /\ LET s == [run.stored EXCEPT !.system_proxy = IF on THEN "on" ELSE None]
     IN Store(s, [run.used EXCEPT
                    !.system_proxy = Resolve(s, run.env).system_proxy])

SetStatusPage(on) ==
  LET s == [run.stored EXCEPT !.status_page = IF on THEN None ELSE "off"]
  IN Store(s, [run.used EXCEPT !.status_page = Resolve(s, run.env).status_page])

SetExitMode(mode) ==
  Store([run.stored EXCEPT !.exit_mode = mode], [run.used EXCEPT !.exit_mode = mode])

Loading == \/ \E env \in Environments : Load(env)
           \/ MoveWritten
           \/ MoveNotWritten
           \/ LegacyRemoved

Others == \/ HandEdit
          \/ \E env \in Environments : SecondLoad(env)

(***************************************************************************)
(* Properties.                                                             *)
(***************************************************************************)
SettingsTypeOK ==
  /\ run.pc \in {"down", "moving", "removing", "up"}
  /\ \A f \in Files : disk[f].kind \in {"absent", "broken", "doc"}
  /\ run.pc # "down" => run.used.exit_mode \in Modes

RowIsRight(key, next) ==
  LET row == Row(key)
  IN /\ row.shadowed # None =>
          Resolve(next, [run.env EXCEPT ![key] = None])[key] = row.shadowed
     /\ row.source = "file" => row.value = Known(key, next[key])
     /\ row.source = "default" => row.value = Resolve(Default, run.env)[key]

\* settings.rs promises a page that tells: until somebody else edits the files,
\* what the page shows is what the next start in the same environment would
\* resolve; and of the two settings a variable may decide, a value called
\* overridden is the one a start without the variable would use, one called the
\* file's is what the next start finds in the file, and one called the default is
\* what a start without a file would use.  The one exception is a save that was
\* refused after its file was in place: the page shows what it was, and the next
\* start uses what that save asked for, until another succeeds.
PageTellsNextStart ==
  /\ SettingsTypeOK
  /\ run.pc = "up" /\ ~run.touched =>
    LET next == ReadStored(disk, run.env)
    IN /\ next.error = run.error
       /\ \A s \in run.unsaid : Resolve(next.stored, run.env) = Resolve(s, run.env)
       /\ run.unsaid = {} =>
            /\ Resolve(next.stored, run.env) = run.used
            /\ \A key \in {"xray_executable", "system_proxy"} :
                 RowIsRight(key, next.stored)

\* A start never costs a setting. Whatever the step of it, the crash between
\* the writing of the new file and the removal of the old one included, a start
\* of the same directory finds what it would have found before; and a file that
\* could not be read when the program started is never written over, not even
\* by a save.
NothingIsLost ==
  [][ /\ edits' = edits /\ saves' = saves /\ (starts' # starts => run.pc = "down")
         => LET env == IF run.pc = "down" THEN run'.env ELSE run.env
            IN \A e \in Environments : ConfigPath(e) = ConfigPath(env) =>
                 ReadStored(disk', e).stored = ReadStored(disk, e).stored
      /\ edits' = edits =>
           \A f \in Files : disk[f] = Broken /\ disk'[f] # Broken => run.touched
    ]_settings
=============================================================================
