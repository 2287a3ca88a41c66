------------------------------- MODULE Screen -------------------------------
\* The window as one surface (crates/app/src/ui): the pages and what each of
\* them opens, the stack of dialogs drawn over them, the two global keys, and
\* the one form that stays open while a worker answers it. The stack belongs to
\* the component library, which is not in this repository: opening pushes,
\* closing takes the top one away and tells it so.
EXTENDS Integers, Sequences, FiniteSets

CONSTANT MaxClicks

VARIABLES view,     \* the page, the panel over it, the keys pressed since the last frame
          dialogs,  \* the dialogs that are open, the top one last
          form,     \* the core form: its base, and whether it waits or was refused
          waiter,   \* the number of the save the form waits for, or 0
          asked,    \* the saves a worker has not answered
          seq,      \* core_save_seq
          cores,    \* the cores that are registered
          profile,  \* whether the one profile exists
          clicks

screen == <<view, dialogs, form, waiter, asked, seq, cores, profile, clicks>>

Pages == {"profiles", "cores", "settings"}
Kinds == {"core", "profile", "setting", "exit", "delete profile", "delete core"}

NoForm == [base |-> 0, checking |-> FALSE, refused |-> FALSE]
Fresh == [page |-> "profiles", selected |-> FALSE, details |-> FALSE,
          escape |-> FALSE, focus |-> FALSE, hidden |-> FALSE, tray |-> FALSE,
          remember |-> FALSE]

ScreenInit ==
  /\ view = Fresh /\ dialogs = <<>> /\ form = NoForm /\ waiter = 0
  /\ asked = {} /\ seq = 0 /\ cores = {} /\ profile = FALSE /\ clicks = 0

Top == dialogs[Len(dialogs)]
OnTop(kind) == dialogs # <<>> /\ Top = kind
IsOpen(kind) == \E i \in DOMAIN dialogs : dialogs[i] = kind

\* A click is on the page when no dialog is over it, and on the top dialog
\* otherwise; there is none in a window that is put away.
Click == clicks < MaxClicks /\ ~view.hidden /\ clicks' = clicks + 1
OnPage(page) == Click /\ dialogs = <<>> /\ view.page = page
InDialog(kind) == Click /\ OnTop(kind)

Opens(kind) == dialogs' = Append(dialogs, kind)

\* MUTANT: a form is dismissed without anybody being told.
ClosesUntold ==
  /\ dialogs' = SubSeq(dialogs, 1, Len(dialogs) - 1)
  /\ UNCHANGED waiter

\* The dialog that goes is told: a core form takes its waiter with it.
Closes ==
  /\ dialogs' = SubSeq(dialogs, 1, Len(dialogs) - 1)
  /\ waiter' = IF OnTop("core") THEN 0 ELSE waiter

(***************************************************************************)
(* The pages, and what each of them opens.                                 *)
(***************************************************************************)
\* Opening the cores page reads the rows again.
GoTo(page) ==
  /\ Click /\ dialogs = <<>> /\ view.page # page
  /\ view' = [view EXCEPT !.page = page, !.selected = @ /\ profile]
  /\ UNCHANGED <<dialogs, form, waiter, asked, seq, cores, profile>>

Select ==
  /\ OnPage("profiles") /\ profile
  /\ view' = [view EXCEPT !.selected = TRUE, !.details = TRUE]
  /\ UNCHANGED <<dialogs, form, waiter, asked, seq, cores, profile>>

\* The profile stays chosen, and its row lit.
CloseDetails ==
  /\ OnPage("profiles") /\ view.details
  /\ view' = [view EXCEPT !.details = FALSE]
  /\ UNCHANGED <<dialogs, form, waiter, asked, seq, cores, profile>>

\* A new profile needs a core to launch with.
OpenProfileForm ==
  /\ OnPage("profiles") /\ (profile \/ cores # {})
  /\ Opens("profile")
  /\ UNCHANGED <<view, form, waiter, asked, seq, cores, profile>>

OpenDeleteProfile ==
  /\ OnPage("profiles") /\ profile
  /\ Opens("delete profile")
  /\ UNCHANGED <<view, form, waiter, asked, seq, cores, profile>>

OpenDeleteCore ==
  /\ OnPage("cores") /\ cores # {}
  /\ Opens("delete core")
  /\ UNCHANGED <<view, form, waiter, asked, seq, cores, profile>>

\* A form opened while another save is out does not adopt its answer.
OpenCoreForm(base) ==
  /\ OnPage("cores") /\ base \in cores \cup {0}
  /\ Opens("core")
  /\ form' = [NoForm EXCEPT !.base = base]
  /\ waiter' = 0
  /\ UNCHANGED <<view, asked, seq, cores, profile>>

OpenSetting ==
  /\ OnPage("settings")
  /\ Opens("setting")
  /\ UNCHANGED <<view, form, waiter, asked, seq, cores, profile>>

(***************************************************************************)
(* What the dialogs do.                                                    *)
(***************************************************************************)
Cancel(kind) ==
  /\ InDialog(kind) /\ Closes
  /\ UNCHANGED <<view, form, asked, seq, cores, profile>>

\* A refusal keeps the form open with the sentence in it, and changes nothing.
SaveProfile ==
  /\ InDialog("profile") /\ Closes
  /\ profile' = TRUE
  /\ UNCHANGED <<view, form, asked, seq, cores>>

\* The profile goes with its row; the panel stays, and says so.
DeleteProfile ==
  /\ InDialog("delete profile") /\ Closes
  /\ profile' = FALSE
  /\ view' = [view EXCEPT !.selected = FALSE]
  /\ UNCHANGED <<form, asked, seq, cores>>

\* Refused while a profile launches with it; the dialog goes either way.
DeleteCore(core) ==
  /\ InDialog("delete core") /\ Closes
  /\ cores' = IF profile THEN cores ELSE cores \ {core}
  /\ UNCHANGED <<view, form, asked, seq, profile>>

\* The obvious mistake is refused on the form, before a worker is asked.
RefuseCore ==
  /\ InDialog("core") /\ ~form.checking
  /\ form' = [form EXCEPT !.refused = TRUE]
  /\ UNCHANGED <<view, dialogs, waiter, asked, seq, cores, profile>>

\* The save is numbered, and the form that asked waits for that number.
SubmitCore ==
  /\ InDialog("core") /\ ~form.checking
  /\ seq' = seq + 1
  /\ asked' = asked \cup {[token |-> seq', base |-> form.base]}
  /\ waiter' = seq'
  /\ form' = [form EXCEPT !.checking = TRUE, !.refused = FALSE]
  /\ UNCHANGED <<view, dialogs, cores, profile>>

\* An answer closes the dialog on top, once it found its form still waiting.
CoreAnswer(save, ok) ==
  /\ save \in asked
  /\ asked' = asked \ {save}
  /\ cores' = IF ok THEN cores \cup {IF save.base = 0 THEN save.token ELSE save.base}
                    ELSE cores
  /\ IF waiter = save.token
     THEN /\ form' = [form EXCEPT !.checking = FALSE, !.refused = ~ok]
          /\ waiter' = 0
          /\ dialogs' = IF ok /\ dialogs # <<>>
                        THEN SubSeq(dialogs, 1, Len(dialogs) - 1) ELSE dialogs
     ELSE UNCHANGED <<form, waiter, dialogs>>
  /\ UNCHANGED <<view, seq, profile, clicks>>

(***************************************************************************)
(* The keys are noted when they are pressed, and acted on by the next      *)
(* frame, which is the first place that can ask whether a dialog is up.    *)
(***************************************************************************)
PressEscape ==
  /\ Click /\ ~view.escape
  /\ view' = [view EXCEPT !.escape = TRUE]
  /\ UNCHANGED <<dialogs, form, waiter, asked, seq, cores, profile>>

PressFilter ==
  /\ Click /\ ~view.focus
  /\ view' = [view EXCEPT !.focus = TRUE]
  /\ UNCHANGED <<dialogs, form, waiter, asked, seq, cores, profile>>

Modal == dialogs # <<>>
Frame ==
  /\ ~view.hidden /\ (view.escape \/ view.focus)
  /\ view' = [view EXCEPT !.escape = FALSE, !.focus = FALSE,
                          !.details = @ /\ (view.escape => Modal),
                          !.page = IF view.focus /\ ~Modal THEN "profiles" ELSE @]
  /\ IF view.escape /\ Modal THEN Closes ELSE UNCHANGED <<dialogs, waiter>>
  /\ UNCHANGED <<form, asked, seq, cores, profile, clicks>>

(***************************************************************************)
(* Closing the window.                                                     *)
(***************************************************************************)
\* A desktop that refuses an icon keeps its window.
PutAway(icon) == view' = [view EXCEPT !.hidden = icon, !.tray = icon]

\* "ask" opens the question over whatever is up; "background" puts the window
\* away. The title bar is in reach whatever dialog is open.
CloseRequested(mode, icon) ==
  /\ Click /\ (view.tray => icon)
  /\ \/ mode = "ask" /\ Opens("exit") /\ UNCHANGED view
     \/ mode = "background" /\ PutAway(icon) /\ UNCHANGED dialogs
  /\ UNCHANGED <<form, waiter, asked, seq, cores, profile>>

Remember ==
  /\ InDialog("exit")
  /\ view' = [view EXCEPT !.remember = ~@]
  /\ UNCHANGED <<dialogs, form, waiter, asked, seq, cores, profile>>

\* The answer takes the question away and puts the window away.
StayInBackground(icon) ==
  /\ InDialog("exit") /\ (view.tray => icon)
  /\ Closes /\ PutAway(icon)
  /\ UNCHANGED <<form, asked, seq, cores, profile>>

Show ==
  /\ view.hidden
  /\ view' = [view EXCEPT !.hidden = FALSE]
  /\ UNCHANGED <<dialogs, form, waiter, asked, seq, cores, profile, clicks>>

OnThePages == \/ \E page \in Pages : GoTo(page)
              \/ Select
              \/ CloseDetails
              \/ OpenProfileForm
              \/ OpenDeleteProfile
              \/ OpenDeleteCore
              \/ \E base \in cores \cup {0} : OpenCoreForm(base)
              \/ OpenSetting

InTheDialogs == \/ \E kind \in Kinds : Cancel(kind)
                \/ SaveProfile
                \/ DeleteProfile
                \/ \E core \in cores : DeleteCore(core)
                \/ RefuseCore
                \/ SubmitCore
                \/ Remember

Answers == \E save \in asked, ok \in BOOLEAN : CoreAnswer(save, ok)
Keys == PressEscape \/ PressFilter \/ Frame

(***************************************************************************)
(* Properties.                                                             *)
(***************************************************************************)
ScreenTypeOK ==
  /\ view.page \in Pages /\ \A i \in DOMAIN dialogs : dialogs[i] \in Kinds
  /\ form.checking \in BOOLEAN /\ waiter \in 0..seq /\ profile \in BOOLEAN

\* A form that says it is checking is waited for by the save a worker still has
\* to answer, so that it is settled sooner or later; and a save that is waited
\* for has its form open, so that no answer lands on a form opened later.
FormIsAnswered ==
  /\ ScreenTypeOK
  /\ waiter # 0 => /\ IsOpen("core") /\ form.checking
                   /\ \E save \in asked : save.token = waiter /\ save.base = form.base
  /\ IsOpen("core") /\ form.checking => waiter # 0
=============================================================================
