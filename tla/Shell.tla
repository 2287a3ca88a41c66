------------------------------- MODULE Shell --------------------------------
\* One run of the program as its reader meets it: the settings it loaded, the
\* window drawn over them, and the controls of that window which write the
\* settings. Closing the window reads the stored exit mode at that moment, and
\* the exit dialog may store one before it acts.
EXTENDS Settings, Screen

vars == <<settings, screen>>

ShellInit == Init /\ ScreenInit

Up == run.pc = "up"

\* A control of the page writes at once; the dialog's field closes when it did.
\* A refused or failed write leaves the dialog open.
PageSaves ==
  /\ Up /\ OnPage("settings")
  /\ \/ \E on \in BOOLEAN : SetSystemProxy(on)
     \/ \E on \in BOOLEAN : SetStatusPage(on)
     \/ \E mode \in Modes : SetExitMode(mode)
  /\ UNCHANGED <<view, dialogs, form, waiter, asked, seq, cores, profile>>

DialogSaves ==
  /\ Up /\ InDialog("setting")
  /\ \E value \in Typed \cup {run.used.xray_executable} : SetPath(value)
  /\ IF Saved THEN Closes ELSE UNCHANGED <<dialogs, waiter>>
  /\ UNCHANGED <<view, form, asked, seq, cores, profile>>

\* The box is written before it is acted on, and the answer is acted on even
\* when the file could not be written.
AnswersBackground(icon) ==
  /\ Up /\ StayInBackground(icon)
  /\ \/ view.remember /\ SetExitMode("background")
     \/ UNCHANGED settings

CloseButton ==
  /\ Up /\ \E icon \in BOOLEAN : CloseRequested(run.used.exit_mode, icon)
  /\ UNCHANGED settings

\* The program ends: the answer was to, or it was killed. A tray that quits, a
\* remembered exit and the two other answers come to this.
Leaves ==
  /\ Ends
  /\ view' = Fresh /\ dialogs' = <<>> /\ form' = NoForm /\ waiter' = 0
  /\ asked' = {} /\ UNCHANGED <<seq, cores, profile, clicks>>

Starts == Loading /\ UNCHANGED screen
Elsewhere == Others /\ UNCHANGED screen
Reads == /\ Up /\ UNCHANGED settings
         /\ \/ OnThePages
            \/ InTheDialogs
            \/ Answers
            \/ Keys
            \/ Show

Next ==
  \/ Starts
  \/ Elsewhere
  \/ Reads
  \/ PageSaves
  \/ DialogSaves
  \/ \E icon \in BOOLEAN : AnswersBackground(icon)
  \/ CloseButton
  \/ Leaves

Spec == ShellInit /\ [][Next]_vars
=============================================================================
