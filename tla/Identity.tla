-------------------------------- MODULE Identity -------------------------------
(***************************************************************************)
(* The identity a profile claims: what a launch asks of the engine, what it     *)
(* warns of, and what is read back out of the running browser                   *)
(* (crates/runtime/src/planner.rs, fingerprint_args.rs, capability.rs,          *)
(* compat.rs, version.rs, verify.rs, egress.rs, cdp.rs; crates/domain/src/      *)
(* core.rs, start_target.rs; crates/app/src/verifier.rs, state/profiles.rs;      *)
(* crates/runtime/src/status.rs).                                             *)
(*                                                                         *)
(* A core's stored major decides which switches are emitted.  The browser runs   *)
(* with what was emitted then; the profile may be edited, the engine replaced    *)
(* in place and the core probed again meanwhile.  A check copies the profile and *)
(* the core's capabilities, opens a page of its own, reads it, opens another at  *)
(* the address endpoint, and reports where claim and reading differ.            *)
(***************************************************************************)
EXTENDS Integers, FiniteSets, Functions, FiniteSetsExt

CONSTANTS
    Savable,  \* the profiles a user may save, records of Fingerprint below
    Layouts,   \* what may lie beside a core's executable
    Exits,     \* addresses traffic can leave from
    None,
    MaxChanges \* bound: edits, updates and probes of one behaviour

PIVOT_MAJOR == 144
NEWEST_MEASURED_MAJOR == 148
VERIFIED_BRANDS == {"Chrome", "Edge"}
Majors == {143, 144, 149}

Versions == {"none", "blank", "x", "y"}
Fingerprint == [base : {"a", "b"}, brand : {"Chrome", "Edge", "Opera", "Vivaldi"},
                brand_version : Versions, version : Versions, cpus : {"none", "4", "8"},
                strict : BOOLEAN, exclusions : BOOLEAN, proxy : BOOLEAN,
                target : {"blank", "url", "odd"}]
Layout == [json : Majors \cup {0}, file : Majors \cup {0}, dirs : SUBSET Majors,
           banner : Majors \cup {0}, actual : Majors]

ASSUME IdentityAssumption ==
    /\ Savable \subseteq Fingerprint /\ Layouts \subseteq Layout
    /\ None \notin Exits /\ MaxChanges \in Nat

\* What a page can be asked about.  "platform" stands for every value compared as it is
\* (platform, language, timezone), "fonts" for every reading that only has to exist.
Surfaces == {"platform", "user agent", "languages", "brand", "cpus", "version", "webrtc", "fonts"}

VARIABLES
    stored,   \* the profile and the core as the window knows them, and the exit the proxy was tested at
    disk,     \* the engine's files
    session,  \* the running browser, and what its launch said
    check,    \* the read-back under way
    page,     \* the thread of the session's status page
    changes

identity == <<stored, disk, session, check, page, changes>>

-----------------------------------------------------------------------------
(* The core's version *)

\* A manifest, a named manifest, the highest version directory, the program's own word.
Probe(l) ==
    IF l.json # 0 THEN l.json ELSE IF l.file # 0 THEN l.file
    ELSE IF l.dirs # {} THEN Max(l.dirs) ELSE l.banner

Capabilities(major) ==
    [major |-> major, brands |-> VERIFIED_BRANDS, exclusions |-> major >= PIVOT_MAJOR]

-----------------------------------------------------------------------------
(* What a launch asks for, and what it says it leaves out *)

Given(v) == v \notin {"none", "blank"}

\* What the profile asks of an engine: a switch and its value. "languages" is the list of
\* accepted ones, "locale" the switch beside it; noise is asked for by every profile.
Asks(p) ==
    {<<s, p.base>> : s \in {"seed", "platform", "locale", "languages"}}
        \cup {<<"brand", p.brand>>, <<"noise", "on">>}
        \cup {<<"brand version", v>> : v \in {w \in {p.brand_version} : Given(w)}}
        \cup {<<"version", v>> : v \in {w \in {p.version} : Given(w)}}
        \cup {<<"cpus", c>> : c \in {p.cpus} \ {"none"}}
        \cup {<<s, "on">> : s \in {x \in {"webrtc", "exclusions"} :
                                   p[IF x = "webrtc" THEN "strict" ELSE x]}}

\* The brand and its version are one claim.
ClaimOf(a) == IF a[1] = "brand version" THEN "brand" ELSE a[1]

\* serialize_fingerprint_args
Emitted(p, cap) ==
    {a \in Asks(p) : /\ ClaimOf(a) = "brand" => p.brand \in cap.brands
                     /\ a[1] = "exclusions" => cap.exclusions}

Findings_BrandOnly(p, cap) == IF p.brand \in cap.brands THEN {} ELSE {"brand"}
Findings(p, cap) ==
    (IF p.brand \in cap.brands THEN {} ELSE {"brand"})
        \cup (IF p.exclusions /\ ~cap.exclusions THEN {"exclusions"} ELSE {})

Warning(p, cap) ==
    Findings(p, cap) \cup (IF cap.major > NEWEST_MEASURED_MAJOR THEN {"unmeasured"} ELSE {})

\* A core whose version was never read has no capabilities; an address that is empty, a
\* switch, of control characters or of another scheme is no start page.
Resolves(known) == known # 0
Valid(p) == p.target # "odd"
Plans(p, known) == Resolves(known) /\ Valid(p)

-----------------------------------------------------------------------------
(* What the engine shows *)

\* An engine applies what it was asked and knows; asked for nothing, it shows its own.
Understood(emitted, major) == {a \in emitted : a[1] = "exclusions" => major >= PIVOT_MAJOR}
Applied(b) == Understood(Emitted(b.profile, Capabilities(b.known)), b.actual)
SwitchOf(s) == IF s = "user agent" THEN "platform" ELSE s
Shown(emitted, s) ==
    IF s = "fonts" THEN "read"
    ELSE IF \E a \in emitted : a[1] = SwitchOf(s)
         THEN (CHOOSE a \in emitted : a[1] = SwitchOf(s))[2] ELSE "default"

-----------------------------------------------------------------------------
(* What a reading says of a claim *)

brand_readback == VERIFIED_BRANDS
Stated_Any(v) == v # "none"
Stated(v) == Given(v)

\* verify: the claims it holds the reading against; the seed, the brand's version, the
\* locale, noise and exclusions are not among them.
Claims(p, cap) ==
    {"platform", "user agent", "languages", "fonts"}
        \cup (IF p.brand \in cap.brands \cap brand_readback THEN {"brand"} ELSE {})
        \cup (IF p.cpus # "none" THEN {"cpus"} ELSE {})
        \cup (IF Stated(p.version) THEN {"version"} ELSE {})
        \cup (IF p.strict THEN {"webrtc"} ELSE {})

Claimed(p, s) ==
    CASE s \in {"platform", "user agent", "languages"} -> p.base
      [] s \in {"brand", "version", "cpus"} -> p[s]
      [] s = "webrtc" -> "on"
      [] s = "fonts" -> "read"

\* What the page did not report is a disagreement, the list of languages excepted.
Differs_Reported(p, s, seen) == seen[s] \notin {Claimed(p, s), "missing"}
Differs(p, s, seen) ==
    seen[s] # Claimed(p, s) /\ ~(s = "languages" /\ seen[s] = "missing")

Verify(p, cap, seen) == {s \in Claims(p, cap) : Differs(p, s, seen)}

\* verify_egress: an expectation and anything but its own address disagree.
VerifyEgress(expected, exit) == IF expected = None \/ exit = expected THEN {} ELSE {"exit address"}

\* outcome_from, over the page's last state: an address only from a complete document
\* of the web; an error page is complete too.
Documents == [complete : BOOLEAN, web : BOOLEAN, committed : BOOLEAN]
Arrived(d) == d.complete /\ d.web
Settled(d) == Arrived(d) \/ (d.committed /\ d.complete)
Outcomes(d) ==
    IF Arrived(d) THEN Exits \cup {"unreadable"} ELSE IF d.web THEN {"timeout"} ELSE {"not reached"}

-----------------------------------------------------------------------------
(* State *)

Off == [up |-> FALSE]
NoCheck == [step |-> "idle"]
NoPage == [step |-> "off", left |-> 0, stop |-> FALSE]
Steps == {"open", "document", "evaluate", "close", "ask", "arrive", "leave", "done"}

Up == [up : {TRUE}, profile : Savable, known : Majors, actual : Majors,
       warned : SUBSET {"brand", "exclusions", "unmeasured"}, tabs : SUBSET {"own", "left"}]
Checks == [step : Steps, profile : Savable, known : Majors, expected : Exits \cup {None},
           seen : {<<>>} \cup [Surfaces -> {"a", "b", "Chrome", "Edge", "x", "y", "4", "8", "on",
                                             "read", "default", "other", "missing"}],
           left : 0..1, found : SUBSET (Surfaces \cup {"exit address"}),
           exit : Exits \cup {None, "unreadable", "timeout", "not reached", "not asked", "unusable"},
           failed : BOOLEAN, gone : BOOLEAN]

IdentityTypeOK ==
    /\ stored \in [profile : Savable, known : Majors \cup {0}, tested : Exits \cup {None}]
    /\ disk \in Layouts /\ changes \in 0..MaxChanges
    /\ session = Off \/ session \in Up
    /\ check = NoCheck \/ check \in Checks
    /\ page \in [step : {"off", "accept", "head", "egress"}, left : 0..1, stop : BOOLEAN]

IdentityInit ==
    /\ disk \in Layouts
    /\ \E p \in Savable : stored = [profile |-> p, known |-> Probe(disk), tested |-> None]
    /\ session = Off /\ check = NoCheck /\ page = NoPage /\ changes = 0

At(step) == check.step = step
Change == changes < MaxChanges /\ changes' = changes + 1

\* The user saves the profile, the engine is replaced in place, the core is probed again.
EditProfile ==
    /\ Change /\ \E p \in Savable : stored' = [stored EXCEPT !.profile = p]
    /\ UNCHANGED <<disk, session, check, page>>
ReplaceEngine ==
    /\ Change /\ disk' \in Layouts /\ UNCHANGED <<stored, session, check, page>>
Redetect ==
    /\ Change /\ stored' = [stored EXCEPT !.known = Probe(disk)]
    /\ UNCHANGED <<disk, session, check, page>>

\* The program ends and is started again: every core is probed, and one that does not
\* answer keeps what it was; what was tested is forgotten, and the page goes with the
\* program. The browser is stopped, or left running and adopted. A program that ends in
\* the middle of a check leaves its page in an adopted browser: that is left out.
Refreshed(known) == IF Probe(disk) = 0 THEN known ELSE Probe(disk)
Reopen ==
    /\ At("idle") /\ page' = NoPage
    /\ stored' = [stored EXCEPT !.known = Refreshed(@), !.tested = None]
    /\ session' \in {Off, session}
    /\ UNCHANGED <<disk, check, changes>>

TestProxy ==
    /\ Change /\ stored.profile.proxy
    /\ \E x \in Exits : stored' = [stored EXCEPT !.tested = x]
    /\ UNCHANGED <<disk, session, check, page>>

\* The page is asked for by a setting; one launch in two has it.
Launch ==
    /\ ~session.up /\ page.step = "off" /\ Plans(stored.profile, stored.known)
    /\ session' = [up |-> TRUE, profile |-> stored.profile, known |-> stored.known,
                   actual |-> disk.actual, tabs |-> {},
                   warned |-> Warning(stored.profile, Capabilities(stored.known))]
    /\ page' \in {NoPage, [NoPage EXCEPT !.step = "accept"]}
    /\ UNCHANGED <<stored, disk, check, changes>>

\* Stopped, or gone by itself: a check under way has lost its browser, whatever is
\* started next; and its status page is told to end, and waited for.
Stop ==
    /\ session.up /\ session' = Off
    /\ check' = IF check = NoCheck THEN NoCheck ELSE [check EXCEPT !.gone = TRUE]
    /\ page' = IF page.step = "off" THEN page ELSE [page EXCEPT !.stop = TRUE]
    /\ UNCHANGED <<stored, disk, changes>>

-----------------------------------------------------------------------------
(* The check *)

Running == UNCHANGED <<stored, disk, page, changes>>
Go(step) == check' = [check EXCEPT !.step = step, !.left = 1]
Alive == session.up /\ ~check.gone

\* The check's pages: the one it has open, and those a closing or an opening that the
\* browser did not confirm has left behind.
Tab(gone, new) ==
    session' = IF Alive THEN [session EXCEPT !.tabs = (@ \ gone) \cup new] ELSE session
Behind == {{}, {"left"}}

\* verification_job: the profile and the core as they are stored now.
Begin ==
    /\ At("idle") /\ session.up /\ Resolves(stored.known)
    /\ check' = [step |-> "open", profile |-> stored.profile, known |-> stored.known,
                 expected |-> IF stored.profile.proxy THEN stored.tested ELSE None, seen |-> <<>>,
                 left |-> 1, found |-> {}, exit |-> None, failed |-> FALSE, gone |-> FALSE]
    /\ session' = session /\ Running

\* The check opens its own page, so the user's are not read.
Open ==
    /\ At("open") /\ Alive /\ Tab({}, {"own"}) /\ Go("document") /\ Running

\* wait_for_document: rounds of asking, one deadline.
Remaining_Renewed(left) == 1
Remaining(left) == left - 1
Wait ==
    /\ check.step \in {"document", "arrive"} /\ Alive /\ check.left > 0
    /\ check' = [check EXCEPT !.left = Remaining(@)] /\ session' = session /\ Running

Loaded ==
    /\ At("document") /\ Alive /\ Go("evaluate") /\ session' = session /\ Running

\* What the engine shows, one surface of it at most something else or not reported.
Readings ==
    LET done == Applied(session)
        honest == [s \in Surfaces |-> Shown(done, s)]
    IN {honest} \cup {[honest EXCEPT ![s] = v] : s \in Surfaces, v \in {"other", "missing"}}
Evaluate ==
    /\ At("evaluate") /\ Alive
    /\ \E seen \in Readings :
         check' = [check EXCEPT !.step = "close", !.seen = seen,
                     !.found = Verify(check.profile, Capabilities(check.known), seen)]
    /\ session' = session /\ Running

\* An answer that is none, a refusal, an exception in the page, a deadline, a browser
\* that is gone: the reading failed, and its page is closed all the same.
Unread ==
    /\ check.step \in {"document", "evaluate"}
    /\ check' = [check EXCEPT !.step = "close", !.failed = TRUE] /\ session' = session /\ Running
\* A browser that is gone, is not ready, refuses or answers too late opens no page, or one
\* that nobody was told of.
Refused ==
    /\ At("open") /\ \E behind \in Behind : Tab({}, behind)
    /\ check' = [check EXCEPT !.step = "done", !.failed = TRUE] /\ Running

\* Closing is best effort: whether it was done is not looked at.
Closes == \E behind \in Behind : Tab({"own"}, behind)
Close ==
    /\ At("close") /\ Closes
    /\ Go(IF check.failed \/ ~check.profile.proxy THEN "done" ELSE "ask") /\ Running

Told(exit, step) ==
    check' = [check EXCEPT !.step = step, !.exit = exit, !.left = 1,
                !.found = @ \cup VerifyEgress(check.expected, exit)]

\* An endpoint that is no plain http address is never dialled.
Ask ==
    /\ At("ask")
    /\ \/ Alive /\ Tab({}, {"own"}) /\ Go("arrive")
       \/ session' = session /\ Told("unusable", "done")
       \/ Told("not asked", "done") /\ \E behind \in Behind : Tab({}, behind)
    /\ Running

Arrive ==
    /\ At("arrive")
    /\ \/ /\ Alive
          /\ \E d \in Documents : /\ (d.web => d.committed) /\ (Settled(d) \/ check.left = 0)
                                  /\ \E exit \in Outcomes(d) : Told(exit, "leave")
       \/ Told("not asked", "leave")
    /\ session' = session /\ Running

Leave == At("leave") /\ Closes /\ Go("done") /\ Running

\* finish_verification
Finish == At("done") /\ check' = NoCheck /\ session' = session /\ Running

Check == Open \/ Wait \/ Loaded \/ Evaluate \/ Unread \/ Refused \/ Close \/ Ask \/ Arrive
            \/ Leave \/ Finish

-----------------------------------------------------------------------------
(* The status page *)

\* serve: whose page is asked for, how, and which.
Requests == [host : {"own", "other", "none"}, query : BOOLEAN, get : BOOLEAN,
             target : {"/", "/api/status", "/api/egress", "else"}]
Status(r) ==
    IF r.host # "own" THEN "Forbidden" ELSE IF r.query THEN "BadRequest"
    ELSE IF ~r.get THEN "MethodNotAllowed" ELSE IF r.target = "else" THEN "NotFound" ELSE "Ok"

Page(step, left) ==
    page' = [page EXCEPT !.step = step, !.left = left] /\ UNCHANGED <<stored, disk, session, check, changes>>

\* One connection at a time, until the flag is seen.
Accept == page.step = "accept" /\ ~page.stop /\ Page("head", 1)
PageEnds ==
    /\ page.step = "accept" /\ page.stop /\ page' = NoPage
    /\ UNCHANGED <<stored, disk, session, check, changes>>

\* The head is whole, or is none: too large and malformed are answered, a close is not.
\* The address is asked through the engine of a session that has one, for a plain
\* request of it alone; everything else is answered from what the launch left behind.
Head ==
    \/ /\ page.step = "head" /\ session.up /\ session.profile.proxy
       /\ \E r \in Requests : Status(r) = "Ok" /\ r.target = "/api/egress"
       /\ Page("egress", 1)
    \/ page.step \in {"head", "egress"} /\ Page("accept", 0)

\* A byte at a time, and the deadline of the whole request all the same.
Drips == page.step \in {"head", "egress"} /\ page.left > 0 /\ Page(page.step, Remaining(page.left))
Late == page.step \in {"head", "egress"} /\ page.left = 0
            /\ Page("accept", 0)

Serve == PageEnds \/ Drips \/ Late

IdentityNext ==
    \/ Accept \/ Head \/ Serve
    \/ EditProfile \/ ReplaceEngine \/ Redetect \/ Reopen \/ TestProxy \/ Launch \/ Stop \/ Begin \/ Check

\* The worker and the page's thread run, and their clocks do.
Fairness == WF_identity(Check) /\ WF_identity(Serve)

IdentitySpec == IdentityInit /\ [][IdentityNext]_identity /\ Fairness

-----------------------------------------------------------------------------
(* Properties *)

Unchanged == check.profile = session.profile /\ check.known = session.known
Read == At("done") /\ Alive /\ check.seen # <<>>

\* What a launch asks for and no check reads back (verify.rs:353-524): of these silence
\* says nothing.
Unverified == {"seed", "brand version", "locale", "noise", "exclusions"}

\* A check that finds nothing confirms all the rest of what the profile asks of its
\* browser: platform, time zone and language, the list of languages, the brand's name,
\* the platform's version, the processors and the policy of WebRTC.  Each was read as
\* claimed, or the launch had warned that it would not be applied; only a list of
\* languages that is not reported passes unread (verify.rs:420).  And the address is the
\* tested one, when there is one.
SilenceIsProof ==
    /\ IdentityTypeOK
    /\ Read /\ check.found = {} =>
         /\ check.expected # None => check.exit = check.expected
         /\ Unchanged =>
              \A a \in {b \in Asks(check.profile) : b[1] \notin Unverified} :
                 \/ a[1] \in session.warned
                 \/ check.seen[a[1]] = a[2]
                 \/ a[1] = "languages" /\ check.seen[a[1]] = "missing"

\* The browser that shows what it was launched with, under a profile and a core nobody
\* changed since, is never accused: neither of a claim the launch could not make nor of
\* one the profile left blank.
NoFalseAlarm ==
    LET emitted == Emitted(session.profile, Capabilities(session.known))
    IN  Read /\ Unchanged /\ check.seen = [s \in Surfaces |-> Shown(emitted, s)]
            => check.found \subseteq {"exit address"}

\* Whatever a launch asks of an engine that is the one on record and that the engine
\* does not do, its warning names; of a brand and its version it names the brand.
OmittedIsWarned ==
    session.up /\ session.actual = session.known =>
        \A a \in Asks(session.profile) \ Applied(session) : ClaimOf(a) \in session.warned

\* The two ends of a claim agree: what the launch leaves out it warns of, and what
\* it warned of, or never claimed, no check holds against the browser.
WarningsAreRight == OmittedIsWarned /\ NoFalseAlarm

\* A check ends, whatever its page does, with no page of its own that it did not ask to
\* have closed; what stays behind in the browser is what an unconfirmed closing or opening
\* left.  And a stop waits for the status page no longer than one request may take.
NothingHangs ==
    /\ (~At("idle")) ~> (At("idle") /\ (session.up => "own" \notin session.tabs))
    /\ page.stop ~> (page.step = "off")

\* False of the code: a core that was updated in place keeps the major it was probed at.
StaleMajorIsWarned ==
    session.up =>
        \A a \in Asks(session.profile) \ Applied(session) : ClaimOf(a) \in session.warned
=============================================================================
