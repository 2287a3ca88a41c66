-------------------------------- MODULE Downloads ------------------------------
(***************************************************************************)
(* The two downloads: a browser core, which becomes a row of the database, and *)
(* the Xray engine, which becomes a path in the settings (crates/app/src/       *)
(* releases.rs, core_releases.rs, xray_releases.rs, state/releases.rs,          *)
(* state/xray_releases.rs, ui/cores.rs, ui/xray.rs, ui/workers.rs).             *)
(*                                                                         *)
(* One worker to a kind streams a file under a .part name, renames it, unpacks  *)
(* it where it stands, and answers; the window's thread records what came down  *)
(* when it reads the answer.  The disk keeps what a killed run left.  The two    *)
(* share no directory, channel or slot, so a behaviour is about one of them.    *)
(***************************************************************************)
EXTENDS Integers, FiniteSets

CONSTANTS
    Releases,
    None,
    MaxDownloads   \* bound

ASSUME DownloadsAssumption == None \notin Releases /\ MaxDownloads \in Nat

Kinds == {"core", "engine"}
\* A core's archive is unpacked, an AppImage runs as it is, an installer is only
\* saved.  The engine's asset is always an archive.
Assets == {"archive", "appimage", "installer"}
Items == [release : Releases, asset : Assets]
NoItem == [release |-> None, asset |-> "archive"]

States == {"none", "partial", "whole"}

VARIABLES
    kind,      \* which of the two downloads this is
    disk,      \* what an asset left on the disk: the .part, the file and the program
    slot,      \* the download the window shows, one at a time
    worker,    \* where its worker is
    answer,    \* what the worker has sent and the window has not read
    recorded,  \* the programs registered (core), or the one set (engine)
    adding,    \* registrations under way, each on a worker of its own
    probed,    \* those whose program has answered and whose row is not written
    listing,   \* the catalogue
    asked,     \* how often each was downloaded: never, once, or again
    begun      \* bound

downloads == <<kind, disk, slot, worker, answer, recorded, adding, probed, listing, asked, begun>>

Places == [part : States, file : States, program : States]

DownloadsTypeOK ==
    /\ kind \in Kinds
    /\ disk \in [Items -> Places]
    /\ slot \in Items \cup {NoItem}
    /\ worker \in {"idle", "streaming", "renaming", "removed", "unpacking"}
    /\ answer \in {"none", "failed", "saved", "usable"}
    /\ recorded \in SUBSET Items /\ (kind = "engine" => Cardinality(recorded) <= 1)
    /\ adding \in SUBSET Items /\ probed \in SUBSET Items
    /\ listing \in {"unasked", "loading", "listed", "failed"}
    /\ asked \in [Items -> 0..2] /\ begun \in 0..MaxDownloads
    \* a slot has a worker or an answer, and they have a slot
    /\ (slot # NoItem) <=> (worker # "idle" \/ answer # "none")

DownloadsInit ==
    /\ kind \in Kinds
    /\ disk = [i \in Items |-> [part |-> "none", file |-> "none", program |-> "none"]]
    /\ slot = NoItem /\ worker = "idle" /\ answer = "none"
    /\ recorded = {} /\ adding = {} /\ probed = {} /\ listing = "unasked"
    /\ asked = [i \in Items |-> 0] /\ begun = 0

-----------------------------------------------------------------------------
(* The catalogue *)

\* The dialog's first opening, and its Refresh button, which waits for the answer.
Fetch ==
    /\ listing # "loading" /\ listing' = "loading"
    /\ UNCHANGED <<kind, disk, slot, worker, answer, recorded, adding, probed, asked, begun>>

\* Within CATALOG_TIMEOUT, one way or the other.
Listed ==
    /\ listing = "loading" /\ listing' \in {"listed", "failed"}
    /\ UNCHANGED <<kind, disk, slot, worker, answer, recorded, adding, probed, asked, begun>>

-----------------------------------------------------------------------------
(* A download *)

Offered == IF kind = "core" THEN Items ELSE {i \in Items : i.asset = "archive"}

BeginDownload(i) ==
    /\ slot = NoItem /\ listing = "listed" /\ i \in Offered
    /\ begun < MaxDownloads /\ begun' = begun + 1
    /\ asked' = [asked EXCEPT ![i] = IF @ = 0 THEN 1 ELSE 2]
    /\ slot' = i /\ worker' = "streaming"
    /\ UNCHANGED <<kind, disk, answer, recorded, adding, probed, listing>>

Here == disk[slot]
Put(places) == disk' = [disk EXCEPT ![slot] = places]
To(step) == worker' = step /\ UNCHANGED answer
Sends(result) == worker' = "idle" /\ answer' = result
Apart == UNCHANGED <<kind, slot, recorded, adding, probed, listing, asked, begun>>

\* stream_into: the request, the bytes, the flush.  Any of it may fail, and a body
\* that stops coming fails within its budget.
Into_Place == "file"
Into == "part"
Stream ==
    /\ worker = "streaming"
    /\ \/ Put([Here EXCEPT ![Into] = "partial"]) /\ To("streaming")
       \/ Put([Here EXCEPT ![Into] = "whole"]) /\ To("renaming")
       \/ UNCHANGED disk /\ Sends("failed")
    /\ Apart

Unpacks == slot.asset = "archive"
Runs == slot.asset = "appimage"

\* What was there under the name goes first: an AppImage is its own program.
RemoveOld ==
    /\ worker = "renaming"
    /\ Put([Here EXCEPT !.file = "none", !.program = IF Runs THEN "none" ELSE @])
    /\ To("removed") /\ Apart

Rename ==
    /\ worker = "removed"
    /\ \/ /\ Put([part |-> "none", file |-> Here.part, program |-> IF Runs THEN Here.part ELSE Here.program])
          /\ IF Unpacks THEN To("unpacking") ELSE Sends(IF Runs THEN "usable" ELSE "saved")
       \/ UNCHANGED disk /\ Sends("failed")
    /\ Apart

\* The program is written over what an earlier download left, in place.  An archive
\* may hold none: a core is then only saved, an engine refused.
Unpack ==
    /\ worker = "unpacking"
    /\ \/ Put([Here EXCEPT !.program = "partial"]) /\ To("unpacking")
       \/ Put([Here EXCEPT !.program = "whole"]) /\ (Sends("usable") \/ Sends("failed"))
       \/ UNCHANGED disk /\ Sends(IF kind = "core" THEN "saved" ELSE "failed")
       \/ UNCHANGED disk /\ Sends("failed")
    /\ Apart

-----------------------------------------------------------------------------
(* The window reads the answer *)

\* A core is handed to a registration; the setting is written here, unless the
\* configuration cannot be.
Emptied_Usable == IF answer = "failed" THEN slot ELSE NoItem
Emptied == NoItem
Usable_Any == answer # "none"
Usable == answer = "usable"
Drain ==
    /\ answer # "none" /\ answer' = "none"
    /\ slot' = Emptied
    /\ adding' = IF kind = "core" /\ Usable THEN adding \cup {slot} ELSE adding
    /\ \/ UNCHANGED recorded
       \/ kind = "engine" /\ Usable /\ recorded' = {slot}
    /\ UNCHANGED <<kind, disk, worker, probed, listing, asked, begun>>

\* CoreService::add: the binary must be there and answer with a version, which it may
\* take seconds over; then the row is written.  It may be refused all the same:
\* registered already, or a restore under way.
Probe(i) ==
    /\ i \in adding /\ adding' = adding \ {i}
    /\ \/ disk[i].program = "whole" /\ probed' = probed \cup {i}
       \/ UNCHANGED probed
    /\ UNCHANGED <<kind, disk, slot, worker, answer, recorded, listing, asked, begun>>

Register(i) ==
    /\ i \in probed /\ probed' = probed \ {i}
    /\ \/ recorded' = recorded \cup {i}
       \/ UNCHANGED recorded
    /\ UNCHANGED <<kind, disk, slot, worker, answer, adding, listing, asked, begun>>

\* The program ends, or is killed, and is started again.
Restart ==
    /\ slot' = NoItem /\ worker' = "idle" /\ answer' = "none"
    /\ adding' = {} /\ probed' = {} /\ listing' = "unasked"
    /\ UNCHANGED <<kind, disk, recorded, asked, begun>>

Work == Stream \/ RemoveOld \/ Rename \/ Unpack

DownloadsNext ==
    \/ Fetch \/ Listed \/ Work \/ Drain \/ Restart
    \/ \E i \in Items : BeginDownload(i) \/ Probe(i) \/ Register(i)

\* A worker's every wait is bounded (the connection, the headers, the body), so it is
\* through with its bytes at some point; the window drains its channels every tick.
Progress == (Work /\ worker' # worker)
Fairness == WF_downloads(Progress) /\ WF_downloads(Drain) /\ WF_downloads(Listed)

DownloadsSpec == DownloadsInit /\ [][DownloadsNext]_downloads /\ Fairness

-----------------------------------------------------------------------------
(* Properties *)

\* A run that is interrupted leaves a .part, never half a file under the name of a
\* whole one (releases.rs:272).
NeverHalfAFile == \A i \in Items : disk[i].file # "partial"

\* What is recorded - a core's row, the engine's setting - is a whole program for as
\* long as its asset is not downloaded a second time: whatever failed, was killed or
\* came down beside it, though the disk, the answer, the probe and the record belong
\* to different threads.
RecordedWhole ==
    /\ DownloadsTypeOK
    /\ NeverHalfAFile
    /\ \A i \in recorded : asked[i] = 1 => disk[i].program = "whole"

\* A download that was begun frees the slot, and a catalogue asked for is listed or
\* failed: the dialog does not stay busy, whatever fails.
DownloadsEnd ==
    /\ (slot # NoItem) ~> (slot = NoItem)
    /\ (listing = "loading") ~> (listing # "loading")

\* False of the code: a second download of an asset in use removes its AppImage, or
\* writes its program in place, and a failure or a kill leaves half of it recorded.
RecordedStaysWhole == \A i \in recorded : disk[i].program = "whole"
=============================================================================
