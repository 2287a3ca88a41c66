----------------------------- MODULE BrowserData -----------------------------
(***************************************************************************)
(* The transfer of browser data (crates/application/src/browser_data.rs):  *)
(* every profile's own directory is copied into a backup directory, or     *)
(* back.  A copy is built beside its destination and put in place by two   *)
(* renames, under an ownership record, and the program can be killed at    *)
(* any point.  What a kill leaves in a profile's own directory is put      *)
(* right when the program starts, what it leaves in the backup when that   *)
(* is next written to.                                                     *)
(*                                                                         *)
(* Every file operation is a step of its own and can fail; one that takes  *)
(* a while is two steps, so that it can be cut in the middle.  What a      *)
(* directory holds is the set of browser runs that wrote in it.            *)
(***************************************************************************)
EXTENDS Integers

CONSTANTS
    Profiles,       \* the profiles in storage
    NoDir,          \* "no directory"
    PutBackFails,   \* the sides on which renaming a displaced directory back may fail
    MaxRuns,        \* bound: runs of a browser
    MaxCrashes      \* bound: times the program is killed

Sides == {"own", "backup"}
ASSUME RunAssumption == MaxRuns \in Nat /\ MaxCrashes \in Nat /\ PutBackFails \subseteq Sides

Dirs == Profiles \X Sides
Own(p) == <<p, "own">>
Counterpart(d) == <<d[1], IF d[2] = "own" THEN "backup" ELSE "own">>
IsOwn(d) == d[2] = "own"

\* Run 0 is what was in a directory to begin with.  Nothing at a path, a tree
\* that is not whole, and something this program did not put there are no
\* sets of runs.
Runs == 0..MaxRuns
Whole == SUBSET Runs
Absent == {-1}
Partial == {-2}
Foreign == {-3}

VARIABLES
    place,          \* what is at a directory's own path
    staged,         \* what is at its .partial sibling
    displaced,      \* what is at its .old sibling
    owner,          \* its copy-owner.json: none, torn or valid
    pc,             \* where the program is
    caller,         \* who called recover
    dir,            \* the destination of the copy, or the directory recovered
    side,           \* which side a transfer writes
    todo,           \* profiles still to recover or to copy
    skipped,        \* profiles a transfer passes over as having no data
    browsing,       \* profiles whose browser runs
    run,            \* browser runs so far
    crashes         \* kills so far

files == <<place, staged, displaced, owner>>
worker == <<pc, caller, dir, side, todo, skipped>>
browsers == <<browsing, run>>
vars == <<files, worker, browsers, crashes>>

-----------------------------------------------------------------------------
Clearing == {"clear_displaced", "clear_staged", "clear_owner"}
Pcs == {"off", "startup", "idle", "transfer", "check", "claim", "record",
        "fill", "copying", "commit", "swap"} \cup Clearing
Callers == {"startup", "before", "abandon", "after"}

TypeOK ==
    /\ place \in [Dirs -> {Absent} \cup Whole]
    /\ staged \in [Dirs -> {Absent, Partial, Foreign} \cup Whole]
    /\ displaced \in [Dirs -> {Absent, Partial, Foreign} \cup Whole]
    /\ owner \in [Dirs -> {"none", "torn", "valid"}]
    /\ pc \in Pcs /\ caller \in Callers /\ side \in Sides
    /\ dir \in Dirs \cup {NoDir}
    /\ pc \in {"off", "startup", "idle", "transfer"} \/ dir \in Dirs
    /\ todo \subseteq Profiles /\ skipped \subseteq Profiles
    /\ browsing \subseteq Profiles /\ run \in Runs /\ crashes \in 0..MaxCrashes

\* The program is not running.  A sibling with a reserved name may be there that
\* no record of ours claims.
Init ==
    /\ place \in {f \in [Dirs -> {Absent, {0}}] : \A d \in Dirs : ~IsOwn(d) => f[d] = Absent}
    /\ \/ staged = [d \in Dirs |-> Absent]
       \/ \E d \in Dirs : staged = [e \in Dirs |-> IF e = d THEN Foreign ELSE Absent]
    /\ \/ displaced = [d \in Dirs |-> Absent]
       \/ \E d \in Dirs : displaced = [e \in Dirs |-> IF e = d THEN Foreign ELSE Absent]
    /\ owner = [d \in Dirs |-> "none"]
    /\ pc = "off" /\ caller = "startup" /\ dir = NoDir /\ side = "own"
    /\ todo = {} /\ skipped = {}
    /\ browsing = {} /\ run = 0 /\ crashes = 0

-----------------------------------------------------------------------------
(* The program around the transfer.                                         *)

\* Nothing is left of the locals of a call.
Reset == dir' = NoDir /\ caller' = "startup" /\ side' = "own" /\ todo' = {} /\ skipped' = {}

\* main recovers every profile's own directory before the window opens.
Start ==
    /\ pc = "off" /\ pc' = "startup" /\ todo' = Profiles
    /\ UNCHANGED <<files, caller, dir, side, skipped, browsers, crashes>>

\* A kill, or an exit while the worker copies.  A browser may outlive it.
Crash ==
    /\ pc # "off" /\ crashes < MaxCrashes
    /\ crashes' = crashes + 1
    /\ pc' = "off" /\ Reset
    /\ browsing' \in SUBSET browsing
    /\ UNCHANGED <<files, run>>

Held(content) == IF content = Absent THEN {} ELSE content

\* A start takes a lease a transfer does not share.  Chromium makes its
\* directory if there is none.
Browse(p) ==
    /\ pc = "idle" /\ p \notin browsing /\ run < MaxRuns
    /\ run' = run + 1 /\ browsing' = browsing \cup {p}
    /\ place' = [place EXCEPT ![Own(p)] = Held(@) \cup {run + 1}]
    /\ UNCHANGED <<staged, displaced, owner, worker, crashes>>

Quit(p) ==
    /\ p \in browsing /\ browsing' = browsing \ {p}
    /\ UNCHANGED <<files, worker, run, crashes>>

-----------------------------------------------------------------------------
(* recover                                                                  *)

Recover(d, by) ==
    /\ pc' = "check" /\ dir' = d /\ caller' = by
    /\ UNCHANGED <<side, skipped, browsers, crashes>>

Goto(next) == pc' = next /\ UNCHANGED <<caller, dir, side, todo, skipped, browsers, crashes>>

\* transfer returns an error, or its report.
Returns == pc' = "idle" /\ Reset /\ UNCHANGED <<browsers, crashes>>

\* The recovery after a failed copy is the last thing a transfer does.
Recovered ==
    \/ caller = "startup" /\ Goto("startup")
    \/ caller = "before" /\ Goto("claim")
    \/ caller = "after" /\ Goto("transfer")
    \/ caller = "abandon" /\ Returns

\* At startup an error is a warning; it ends a transfer.
Refuse == IF caller = "startup" THEN Goto("startup") ELSE Returns

Unclaimed_Never == FALSE
Unclaimed == owner[dir] # "valid"
Leftovers == displaced[dir] # Absent \/ staged[dir] # Absent

\* Only what a valid record claims is touched.
NothingClaimed ==
    /\ pc = "check" /\ Unclaimed
    /\ IF owner[dir] = "none" /\ ~Leftovers THEN Recovered ELSE Refuse
    /\ UNCHANGED files

PutBackDue == place[dir] = Absent /\ displaced[dir] # Absent

PutBack ==
    /\ pc = "check" /\ ~Unclaimed /\ PutBackDue
    /\ place' = [place EXCEPT ![dir] = displaced[dir]]
    /\ displaced' = [displaced EXCEPT ![dir] = Absent]
    /\ Goto("clear_displaced")
    /\ UNCHANGED <<staged, owner>>

CannotPutBack ==
    /\ pc = "check" /\ ~Unclaimed /\ PutBackDue /\ dir[2] \in PutBackFails
    /\ Refuse /\ UNCHANGED files

NothingToPutBack ==
    /\ pc = "check" /\ ~Unclaimed /\ ~PutBackDue
    /\ Goto("clear_displaced") /\ UNCHANGED files

\* remove_any: a tree goes entry by entry.
Smaller(content) == IF content = Partial THEN Absent ELSE Partial

ClearDisplaced ==
    /\ pc = "clear_displaced"
    /\ IF displaced[dir] = Absent
       THEN Goto("clear_staged") /\ UNCHANGED displaced
       ELSE displaced' = [displaced EXCEPT ![dir] = Smaller(@)] /\ Goto(pc)
    /\ UNCHANGED <<place, staged, owner>>

ClearStaged ==
    /\ pc = "clear_staged"
    /\ IF staged[dir] = Absent
       THEN Goto("clear_owner") /\ UNCHANGED staged
       ELSE staged' = [staged EXCEPT ![dir] = Smaller(@)] /\ Goto(pc)
    /\ UNCHANGED <<place, displaced, owner>>

ClearOwner ==
    /\ pc = "clear_owner"
    /\ owner' = [owner EXCEPT ![dir] = "none"]
    /\ Recovered
    /\ UNCHANGED <<place, staged, displaced>>

ClearFails == pc \in Clearing /\ Refuse /\ UNCHANGED files

Recovery ==
    \/ NothingClaimed \/ PutBack \/ CannotPutBack \/ NothingToPutBack
    \/ ClearDisplaced \/ ClearStaged \/ ClearOwner \/ ClearFails

RecoverNext(p) ==
    /\ pc = "startup" /\ p \in todo
    /\ todo' = todo \ {p} /\ Recover(Own(p), "startup")
    /\ UNCHANGED files

WindowOpens == pc = "startup" /\ todo = {} /\ Returns /\ UNCHANGED files

-----------------------------------------------------------------------------
(* transfer                                                                 *)

\* A job covers every profile and is refused while one runs.  A profile whose
\* source is not a directory is skipped.
Transfer(to) ==
    /\ pc = "idle" /\ browsing = {}
    /\ todo' = {p \in Profiles : place[Counterpart(<<p, to>>)] # Absent}
    /\ skipped' = Profiles \ todo'
    /\ side' = to /\ pc' = "transfer"
    /\ UNCHANGED <<files, caller, dir, browsers, crashes>>

Taken_Never(p) == UNCHANGED todo
Taken(p) == todo' = todo \ {p}

NextCopy(p) ==
    /\ pc = "transfer" /\ p \in todo
    /\ Taken(p) /\ Recover(<<p, side>>, "before")
    /\ UNCHANGED files

TransferEnds == pc = "transfer" /\ todo = {} /\ Returns /\ UNCHANGED files

\* claim: the record is created, then written.
Claim ==
    /\ pc = "claim" /\ owner' = [owner EXCEPT ![dir] = "torn"] /\ Goto("record")
    /\ UNCHANGED <<place, staged, displaced>>

Record ==
    /\ pc = "record" /\ owner' = [owner EXCEPT ![dir] = "valid"] /\ Goto("fill")
    /\ UNCHANGED <<place, staged, displaced>>

ClaimFails == pc \in {"claim", "record"} /\ Returns /\ UNCHANGED files

\* copy_tree
Fill ==
    /\ pc = "fill" /\ staged' = [staged EXCEPT ![dir] = Partial] /\ Goto("copying")
    /\ UNCHANGED <<place, displaced, owner>>

Copied_Halfway ==
    pc = "copying" /\ Goto("commit") /\ UNCHANGED files
Copied ==
    /\ pc = "copying" /\ Goto("commit")
    /\ staged' = [staged EXCEPT ![dir] = place[Counterpart(dir)]]
    /\ UNCHANGED <<place, displaced, owner>>

CopyFails ==
    /\ pc \in {"fill", "copying"} /\ Recover(dir, "abandon")
    /\ UNCHANGED <<files, todo>>

\* commit: the renames.
PutInPlace ==
    /\ place' = [place EXCEPT ![dir] = staged[dir]]
    /\ staged' = [staged EXCEPT ![dir] = Absent]
    /\ Recover(dir, "after")
    /\ UNCHANGED <<displaced, owner, todo>>

CommitNew == pc = "commit" /\ place[dir] = Absent /\ PutInPlace

Displace_Removed ==
    place' = [place EXCEPT ![dir] = Absent] /\ UNCHANGED displaced
Displace ==
    /\ displaced' = [displaced EXCEPT ![dir] = place[dir]]
    /\ place' = [place EXCEPT ![dir] = Absent]

CommitAside ==
    /\ pc = "commit" /\ place[dir] # Absent
    /\ Displace /\ Goto("swap")
    /\ UNCHANGED <<staged, owner>>

CommitSwap == pc = "swap" /\ PutInPlace

CommitFails == pc = "commit" /\ Returns /\ UNCHANGED files

\* The second rename fails: what was set aside is put back, if that works.
Restored_Never == UNCHANGED <<place, displaced>>
Restored ==
    \/ /\ place' = [place EXCEPT ![dir] = displaced[dir]]
       /\ displaced' = [displaced EXCEPT ![dir] = Absent]
    \/ dir[2] \in PutBackFails /\ UNCHANGED <<place, displaced>>

SwapFails == pc = "swap" /\ Restored /\ Returns /\ UNCHANGED <<staged, owner>>

Copying ==
    \/ TransferEnds \/ Claim \/ Record \/ ClaimFails \/ Fill \/ Copied \/ CopyFails
    \/ CommitNew \/ CommitAside \/ CommitSwap \/ CommitFails \/ SwapFails
    \/ \E p \in Profiles : NextCopy(p)

-----------------------------------------------------------------------------
Work == Recovery \/ WindowOpens \/ Copying \/ \E p \in Profiles : RecoverNext(p)
Next ==
    \/ Start \/ Crash \/ Work
    \/ \E to \in Sides : Transfer(to)
    \/ \E p \in Profiles : Browse(p) \/ Quit(p)

\* A thread that copies or recovers is scheduled.
Spec == Init /\ [][Next]_vars /\ WF_vars(Work)

-----------------------------------------------------------------------------
(* Properties.                                                              *)

\* What a directory holds, its own path or, while that is missing, the sibling
\* our record says was set aside.
Data == [d \in Dirs |->
            IF place[d] # Absent \/ owner[d] # "valid" THEN place[d] ELSE displaced[d]]

Atomic == INSTANCE AtomicReplace WITH data <- Data

\* Whatever fails and whenever the program is killed, a directory changes only
\* by being browsed in or by becoming a whole copy of its counterpart
\* (transfer, commit, recover).
ReplacesAtomically == Atomic!Spec

\* When a browser can be started, every profile's data is where the browser
\* looks for it: nothing is left aside to be mistaken for a fresh profile and
\* then cleared away (recover_user_data_dirs, commit).
DataIsInPlace ==
    pc = "idle" => \A p \in Profiles : place[Own(p)] = Data[Own(p)]

\* Siblings that no record of ours claims are never touched (recover).
KeepsForeign ==
    \A d \in Dirs : /\ displaced[d] = Foreign => displaced'[d] = Foreign
                   /\ staged[d] = Foreign => staged'[d] = Foreign
ForeignIsKept == [][KeepsForeign]_vars

\* A transfer and the recovery before the window end, so the leases on every
\* profile are given back.
WorkEnds == (pc \notin {"off", "idle"}) ~> (pc \in {"off", "idle"})

-----------------------------------------------------------------------------
(* What the repository says of the transfer and its code does not do.       *)

\* "the destination is either the copy or what it was - never neither"
\* (browser_data.rs:684-687): after a failed commit was reported.
NeverNeither ==
    [][pc = "swap" /\ pc' = "idle" => place'[dir] # Absent]_vars

\* An interrupted copy in the backup directory "is recovered when it is next
\* used" (browser_data.rs:111-114): a restore from it passes over no profile
\* whose data is there.
SkippedHaveNoData ==
    pc = "transfer" => \A p \in skipped : Data[Counterpart(<<p, side>>)] = Absent

=============================================================================
