------------------------------ MODULE ShellProofs ------------------------------
(***************************************************************************)
(* Theorems about the window's dialogs and the one form that waits, for    *)
(* any settings, number of clicks and number of saves that are out.        *)
(***************************************************************************)
EXTENDS Shell, SequenceTheorems, TLAPS

-----------------------------------------------------------------------------
(* The invariant.                                                           *)

Form == [base : Nat, checking : BOOLEAN, refused : BOOLEAN]
Save == [token : Nat, base : Nat]

ViewType == view \in [page : Pages, selected : BOOLEAN, details : BOOLEAN, escape : BOOLEAN,
                     focus : BOOLEAN, hidden : BOOLEAN, tray : BOOLEAN, remember : BOOLEAN]
SaveType == /\ form \in Form /\ waiter \in Nat /\ seq \in Nat /\ waiter <= seq
            /\ \A save \in asked : save \in Save /\ save.token <= seq
            /\ cores \subseteq Nat /\ profile \in BOOLEAN

\* Only the question of the exit opens over another dialog.
Stacked == /\ dialogs \in Seq(Kinds)
           /\ \A i \in 1..Len(dialogs) : i > 1 => dialogs[i] = "exit"

\* The form that waits is the bottom dialog, and its save is out; and a form that
\* says it is checking waits.
Awaited == waiter # 0 => /\ dialogs # <<>> /\ dialogs[1] = "core" /\ form.checking
                         /\ \E save \in asked : save.token = waiter /\ save.base = form.base
Checked == dialogs # <<>> /\ dialogs[1] = "core" /\ form.checking => waiter # 0

Inv == ViewType /\ SaveType /\ Stacked /\ Awaited /\ Checked

LEMMA EmptyForm == NoForm \in Form /\ NoForm.checking = FALSE
<1>1. 0 \in Nat /\ FALSE \in BOOLEAN
  OBVIOUS
<1> QED
  BY <1>1, Zenon DEF NoForm, Form

LEMMA InvGivesProperty == Inv => FormIsAnswered
<1> SUFFICES ASSUME Inv PROVE FormIsAnswered
  OBVIOUS
<1>1. ScreenTypeOK
  BY DEF Inv, ViewType, SaveType, Stacked, ScreenTypeOK, Form
<1>2. IsOpen("core") <=> dialogs # <<>> /\ dialogs[1] = "core"
  BY DEF Inv, Stacked, IsOpen
<1> QED
  BY <1>1, <1>2 DEF Inv, Awaited, Checked, FormIsAnswered

-----------------------------------------------------------------------------
(* What the dialogs do to the form.                                         *)

LEMMA FrontOf ==
    ASSUME NEW q \in Seq(Kinds), NEW n \in Nat, n = Len(q), n >= 1
    PROVE  /\ SubSeq(q, 1, n - 1) \in Seq(Kinds) /\ Len(SubSeq(q, 1, n - 1)) = n - 1
           /\ \A i \in 1..(n - 1) : SubSeq(q, 1, n - 1)[i] = q[i]
<1>1. n - 1 \in Nat /\ \A i \in 1..(n - 1) : q[i] \in Kinds
  OBVIOUS
<1> DEFINE m == n - 1
<1>2. /\ SubSeq(q, 1, m) \in Seq(Kinds)
      /\ Len(SubSeq(q, 1, m)) = IF 1 <= m THEN m - 1 + 1 ELSE 0
      /\ \A i \in 1..(m - 1 + 1) : SubSeq(q, 1, m)[i] = q[1 + i - 1]
  BY <1>1, SubSeqProperties
<1>3. m \in Nat
  BY <1>1
<1> HIDE DEF m
<1>4. Len(SubSeq(q, 1, m)) = m
  BY <1>2, <1>3
<1>5. \A i \in 1..m : SubSeq(q, 1, m)[i] = q[i]
  BY <1>2, <1>3
<1> QED
  BY <1>2, <1>4, <1>5 DEF m

\* Taking the top dialog away leaves the bottom one, unless that was the top one.
LEMMA Shorter ==
    ASSUME Stacked, dialogs # <<>>,
           dialogs' = SubSeq(dialogs, 1, Len(dialogs) - 1)
    PROVE  /\ Stacked'
           /\ dialogs' # <<>> => dialogs'[1] = dialogs[1] /\ Top = "exit"
           /\ dialogs' = <<>> => Top = dialogs[1]
<1> DEFINE n == Len(dialogs)
<1>1. n \in Nat /\ n >= 1 /\ dialogs \in Seq(Kinds)
  BY DEF Stacked
<1>2. /\ dialogs' \in Seq(Kinds) /\ Len(dialogs') = n - 1
      /\ \A i \in 1..(n - 1) : dialogs'[i] = dialogs[i]
  BY <1>1, FrontOf
<1> HIDE DEF n
<1>3. \A i \in 1..n : i > 1 => dialogs[i] = "exit"
  BY DEF Stacked, n
<1>4. Stacked'
  BY <1>1, <1>2, <1>3 DEF Stacked
<1>5. ASSUME dialogs' # <<>> PROVE dialogs'[1] = dialogs[1] /\ Top = "exit"
  <2>1. n > 1
    BY <1>1, <1>2, <1>5
  <2> QED
    BY <1>1, <1>2, <1>3, <2>1 DEF Top, n
<1>6. ASSUME dialogs' = <<>> PROVE Top = dialogs[1]
  <2>1. Len(dialogs') = 0
    BY <1>6, EmptySeq, Zenon
  <2>2. n = 1
    BY <1>1, <1>2, <2>1
  <2> QED
    BY <2>2 DEF Top, n
<1> QED
  BY <1>4, <1>5, <1>6

\* Opening one puts it on top.
LEMMA Longer ==
    ASSUME Stacked, NEW kind \in Kinds, dialogs = <<>> \/ kind = "exit", Opens(kind)
    PROVE  /\ Stacked' /\ dialogs' # <<>>
           /\ dialogs'[1] = IF dialogs = <<>> THEN kind ELSE dialogs[1]
<1>1. Len(dialogs) \in Nat /\ dialogs \in Seq(Kinds)
  BY DEF Stacked
<1>2. /\ dialogs' \in Seq(Kinds) /\ Len(dialogs') = Len(dialogs) + 1
      /\ \A i \in 1..(Len(dialogs) + 1) :
            dialogs'[i] = IF i = Len(dialogs) + 1 THEN kind ELSE dialogs[i]
  BY <1>1 DEF Opens
<1> QED
  BY <1>1, <1>2 DEF Stacked

\* A dialog that goes is told, so a form that goes is not waited for.
LEMMA ClosingIsTold ==
    ASSUME Inv, dialogs # <<>>, Closes, UNCHANGED <<form, asked, seq>>,
           cores' \subseteq cores, profile' \in BOOLEAN
    PROVE  SaveType' /\ Stacked' /\ Awaited' /\ Checked'
<1>1. /\ Stacked'
      /\ dialogs' # <<>> => dialogs'[1] = dialogs[1] /\ Top = "exit"
      /\ dialogs' = <<>> => Top = dialogs[1]
  BY Shorter DEF Inv, Closes
<1>2. waiter' = IF Top = "core" THEN 0 ELSE waiter
  BY DEF Closes, OnTop
<1>3. SaveType'
  BY <1>2 DEF Inv, SaveType
<1>4. CASE dialogs' = <<>>
  BY <1>1, <1>2, <1>3, <1>4 DEF Inv, Awaited, Checked
<1>5. CASE dialogs' # <<>>
  <2>1. UNCHANGED waiter /\ dialogs'[1] = dialogs[1]
    BY <1>1, <1>2, <1>5
  <2> QED
    BY <1>1, <1>3, <1>5, <2>1 DEF Inv, Awaited, Checked
<1> QED
  BY <1>4, <1>5

\* A dialog that opens on the page, and is not the form, finds nothing waiting.
LEMMA OpeningKeeps ==
    ASSUME Inv, NEW kind \in Kinds \ {"core"}, dialogs = <<>> \/ kind = "exit", Opens(kind),
           UNCHANGED <<form, waiter, asked, seq, cores, profile>>
    PROVE  SaveType' /\ Stacked' /\ Awaited' /\ Checked'
<1>1. /\ Stacked' /\ dialogs' # <<>>
      /\ dialogs'[1] = IF dialogs = <<>> THEN kind ELSE dialogs[1]
  BY Longer DEF Inv
<1>2. SaveType'
  BY DEF Inv, SaveType
<1> QED
  BY <1>1, <1>2 DEF Inv, Awaited, Checked

LEMMA NothingOpens ==
    ASSUME Inv, UNCHANGED <<dialogs, waiter, asked, seq, form>>,
           cores' \subseteq Nat, profile' \in BOOLEAN
    PROVE  SaveType' /\ Stacked' /\ Awaited' /\ Checked'
  BY DEF Inv, SaveType, Stacked, Awaited, Checked

-----------------------------------------------------------------------------
(* The steps.                                                               *)

LEMMA PagesKeep == Inv /\ OnThePages => Inv'
<1> SUFFICES ASSUME Inv, OnThePages PROVE Inv'
  OBVIOUS
<1> USE DEF OnPage, InDialog, Click
<1>1. ASSUME NEW page \in Pages, GoTo(page) PROVE Inv'
  <2>1. SaveType' /\ Stacked' /\ Awaited' /\ Checked'
    BY <1>1, NothingOpens DEF GoTo, Inv, SaveType
  <2>2. ViewType'
    BY <1>1 DEF GoTo, Inv, ViewType, SaveType
  <2> QED
    BY <2>1, <2>2 DEF Inv
<1>2. CASE Select \/ CloseDetails
  <2>1. SaveType' /\ Stacked' /\ Awaited' /\ Checked'
    BY <1>2, NothingOpens DEF Select, CloseDetails, Inv, SaveType
  <2>2. ViewType'
    BY <1>2 DEF Select, CloseDetails, Inv, ViewType
  <2> QED
    BY <2>1, <2>2 DEF Inv
<1>3. ASSUME NEW kind \in Kinds \ {"core"}, dialogs = <<>>, Opens(kind),
             UNCHANGED <<view, form, waiter, asked, seq, cores, profile>>
      PROVE  Inv'
  <2>1. SaveType' /\ Stacked' /\ Awaited' /\ Checked'
    BY <1>3, OpeningKeeps
  <2> QED
    BY <2>1, <1>3 DEF Inv, ViewType
<1>4. CASE OpenProfileForm \/ OpenDeleteProfile \/ OpenDeleteCore \/ OpenSetting
  BY <1>3, <1>4 DEF OpenProfileForm, OpenDeleteProfile, OpenDeleteCore, OpenSetting, Kinds
<1>5. ASSUME NEW base \in cores \cup {0}, OpenCoreForm(base) PROVE Inv'
  <2>1. Stacked'
    BY <1>5, Longer DEF OpenCoreForm, Inv, Kinds
  <2>2. base \in Nat /\ form' = [NoForm EXCEPT !.base = base] /\ waiter' = 0
    BY <1>5 DEF OpenCoreForm, Inv, SaveType
  <2>3. ~form'.checking /\ form' \in Form
    BY <2>2, EmptyForm DEF Form
  <2>4. ViewType' /\ SaveType'
    BY <1>5, <2>3 DEF OpenCoreForm, Inv, ViewType, SaveType
  <2> QED
    BY <2>1, <2>2, <2>3, <2>4 DEF Inv, Awaited, Checked
<1> QED
  BY <1>1, <1>2, <1>4, <1>5 DEF OnThePages

LEMMA ClosingKeeps ==
    ASSUME Inv, dialogs # <<>>, Closes, UNCHANGED <<form, asked, seq>>,
           cores' \subseteq cores, profile' \in BOOLEAN, ViewType'
    PROVE  Inv'
  BY ClosingIsTold DEF Inv

LEMMA DialogsKeep == Inv /\ InTheDialogs => Inv'
<1> SUFFICES ASSUME Inv, InTheDialogs PROVE Inv'
  OBVIOUS
<1> USE DEF InDialog, OnTop
<1>1. ASSUME NEW kind \in Kinds, Cancel(kind) PROVE Inv'
  <2>1. ViewType' /\ profile' \in BOOLEAN
    BY <1>1 DEF Cancel, Inv, ViewType, SaveType
  <2> QED
    BY <1>1, <2>1, ClosingKeeps DEF Cancel
<1>2. CASE SaveProfile
  <2>1. ViewType'
    BY <1>2 DEF SaveProfile, Inv, ViewType
  <2> QED
    BY <1>2, <2>1, ClosingKeeps DEF SaveProfile
<1>3. CASE DeleteProfile
  <2>1. ViewType'
    BY <1>3 DEF DeleteProfile, Inv, ViewType
  <2> QED
    BY <1>3, <2>1, ClosingKeeps DEF DeleteProfile
<1>4. ASSUME NEW core \in cores, DeleteCore(core) PROVE Inv'
  <2>1. ViewType' /\ profile' \in BOOLEAN /\ cores' \subseteq cores
    BY <1>4 DEF DeleteCore, Inv, ViewType, SaveType
  <2> QED
    BY <1>4, <2>1, ClosingKeeps DEF DeleteCore
<1>5. CASE RefuseCore
  <2>1. /\ form'.checking = form.checking /\ form'.base = form.base /\ form' \in Form
    BY <1>5 DEF RefuseCore, Inv, SaveType, Form
  <2>2. ViewType' /\ SaveType' /\ Stacked'
    BY <1>5, <2>1 DEF RefuseCore, Inv, ViewType, SaveType, Stacked
  <2> QED
    BY <1>5, <2>1, <2>2 DEF RefuseCore, Inv, Awaited, Checked
<1>6. CASE SubmitCore
  <2>1. dialogs # <<>> /\ dialogs[1] = "core" /\ Top = "core"
    BY <1>6 DEF SubmitCore, Inv, Stacked, Top
  <2>2. /\ form' \in Form /\ form'.checking /\ form'.base = form.base
        /\ waiter' = seq + 1 /\ seq' = seq + 1 /\ waiter' # 0
    <3>1. form \in Form /\ form' = [form EXCEPT !.checking = TRUE, !.refused = FALSE]
      BY <1>6 DEF SubmitCore, Inv, SaveType
    <3>2. waiter' = seq + 1 /\ seq' = seq + 1 /\ seq \in Nat
      BY <1>6 DEF SubmitCore, Inv, SaveType
    <3>3. form' \in Form /\ form'.checking /\ form'.base = form.base
      BY <3>1 DEF Form
    <3> QED
      BY <3>2, <3>3
  <2>3. asked' = asked \cup {[token |-> seq + 1, base |-> form.base]}
    BY <1>6 DEF SubmitCore
  <2>4. ViewType' /\ Stacked'
    BY <1>6 DEF SubmitCore, Inv, ViewType, Stacked
  <2>5. SaveType'
    BY <1>6, <2>2, <2>3 DEF SubmitCore, Inv, SaveType, Form, Save
  <2>6. Awaited' /\ Checked'
    BY <1>6, <2>1, <2>2, <2>3 DEF SubmitCore, Awaited, Checked
  <2> QED
    BY <2>4, <2>5, <2>6 DEF Inv
<1>7. CASE Remember
  <2>1. SaveType' /\ Stacked' /\ Awaited' /\ Checked'
    BY <1>7, NothingOpens DEF Remember, Inv, SaveType
  <2>2. ViewType'
    BY <1>7 DEF Remember, Inv, ViewType
  <2> QED
    BY <2>1, <2>2 DEF Inv
<1> QED
  BY <1>1, <1>2, <1>3, <1>4, <1>5, <1>6, <1>7 DEF InTheDialogs

\* The answer that is waited for ends the waiting; any other leaves it out.
LEMMA AnswersKeep == Inv /\ Answers => Inv'
<1> SUFFICES ASSUME Inv, NEW save \in asked, NEW ok \in BOOLEAN, CoreAnswer(save, ok)
             PROVE  Inv'
  BY DEF Answers
<1>1. ViewType' /\ cores' \subseteq Nat
  BY DEF CoreAnswer, Inv, ViewType, SaveType, Save
<1>2. CASE waiter = save.token
  <2>1. form' \in Form /\ ~form'.checking /\ waiter' = 0 /\ UNCHANGED <<seq, profile>>
    BY <1>2 DEF CoreAnswer, Inv, SaveType, Form
  <2>2. asked' \subseteq asked
    BY DEF CoreAnswer
  <2>3. SaveType'
    BY <1>1, <2>1, <2>2 DEF Inv, SaveType
  <2>4. Stacked'
    <3>1. CASE ok /\ dialogs # <<>>
      BY <1>2, <3>1, Shorter DEF CoreAnswer, Inv
    <3>2. CASE ~(ok /\ dialogs # <<>>)
      BY <1>2, <3>2 DEF CoreAnswer, Inv, Stacked
    <3> QED
      BY <3>1, <3>2
  <2> QED
    BY <1>1, <2>1, <2>3, <2>4 DEF Inv, Awaited, Checked
<1>3. CASE waiter # save.token
  <2>1. UNCHANGED <<form, waiter, dialogs, seq, profile>> /\ asked' = asked \ {save}
    BY <1>3 DEF CoreAnswer
  <2>2. SaveType' /\ Stacked'
    BY <1>1, <2>1 DEF Inv, SaveType, Stacked
  <2> QED
    BY <1>1, <1>3, <2>1, <2>2 DEF Inv, Awaited, Checked
<1> QED
  BY <1>2, <1>3

LEMMA KeysKeep == Inv /\ Keys => Inv'
<1> SUFFICES ASSUME Inv, Keys PROVE Inv'
  OBVIOUS
<1>1. CASE PressEscape \/ PressFilter
  <2>1. SaveType' /\ Stacked' /\ Awaited' /\ Checked'
    BY <1>1, NothingOpens DEF PressEscape, PressFilter, Inv, SaveType
  <2>2. ViewType'
    BY <1>1 DEF PressEscape, PressFilter, Inv, ViewType
  <2> QED
    BY <2>1, <2>2 DEF Inv
<1>2. CASE Frame
  <2>1. ViewType'
    BY <1>2 DEF Frame, Inv, ViewType, Pages, Modal
  <2>2. profile' \in BOOLEAN /\ UNCHANGED <<form, asked, seq, cores, profile>>
    BY <1>2 DEF Frame, Inv, SaveType
  <2>3. CASE view.escape /\ Modal
    BY <1>2, <2>1, <2>2, <2>3, ClosingKeeps DEF Frame, Modal
  <2>4. CASE ~(view.escape /\ Modal)
    <3>1. SaveType' /\ Stacked' /\ Awaited' /\ Checked'
      BY <1>2, <2>2, <2>4, NothingOpens DEF Frame, Inv, SaveType
    <3> QED
      BY <2>1, <3>1 DEF Inv
  <2> QED
    BY <2>3, <2>4
<1> QED
  BY <1>1, <1>2 DEF Keys

LEMMA ClosingTheWindowKeeps ==
    ASSUME Inv, NEW mode, NEW icon \in BOOLEAN, CloseRequested(mode, icon)
    PROVE  Inv'
<1>1. UNCHANGED <<form, waiter, asked, seq, cores, profile>> /\ profile \in BOOLEAN
  BY DEF CloseRequested, Inv, SaveType
<1>2. CASE Opens("exit") /\ UNCHANGED view
  <2>1. SaveType' /\ Stacked' /\ Awaited' /\ Checked'
    BY <1>1, <1>2, OpeningKeeps DEF Kinds
  <2> QED
    BY <1>2, <2>1 DEF Inv, ViewType
<1>3. CASE PutAway(icon) /\ UNCHANGED dialogs
  <2>1. SaveType' /\ Stacked' /\ Awaited' /\ Checked'
    BY <1>1, <1>3, NothingOpens DEF Inv, SaveType
  <2>2. ViewType'
    BY <1>3 DEF PutAway, Inv, ViewType
  <2> QED
    BY <2>1, <2>2 DEF Inv
<1> QED
  BY <1>2, <1>3 DEF CloseRequested

LEMMA UnchangedKeeps == Inv /\ UNCHANGED screen => Inv'
  BY DEF screen, Inv, ViewType, SaveType, Stacked, Awaited, Checked

LEMMA StepKeeps == Inv /\ [Next]_vars => Inv'
<1> SUFFICES ASSUME Inv, [Next]_vars PROVE Inv'
  OBVIOUS
<1>1. CASE Starts \/ Elsewhere \/ UNCHANGED vars
  BY <1>1, UnchangedKeeps DEF Starts, Elsewhere, vars
<1>2. CASE Reads
  <2>1. CASE Show
    <3>1. SaveType' /\ Stacked' /\ Awaited' /\ Checked'
      BY <2>1, NothingOpens DEF Show, Inv, SaveType
    <3>2. ViewType'
      BY <2>1 DEF Show, Inv, ViewType
    <3> QED
      BY <3>1, <3>2 DEF Inv
  <2> QED
    BY <1>2, <2>1, PagesKeep, DialogsKeep, AnswersKeep, KeysKeep DEF Reads
<1>3. CASE PageSaves
  <2>1. UNCHANGED <<view, dialogs, form, waiter, asked, seq, cores, profile>>
    BY <1>3 DEF PageSaves
  <2>2. SaveType' /\ Stacked' /\ Awaited' /\ Checked'
    BY <2>1, NothingOpens DEF Inv, SaveType
  <2> QED
    BY <2>1, <2>2 DEF Inv, ViewType
<1>4. CASE DialogSaves
  <2>1. /\ dialogs # <<>>
        /\ Closes \/ UNCHANGED <<dialogs, waiter>>
        /\ UNCHANGED <<view, form, asked, seq, cores, profile>>
    BY <1>4 DEF DialogSaves, InDialog, OnTop
  <2>2. ViewType' /\ profile' \in BOOLEAN
    BY <2>1 DEF Inv, ViewType, SaveType
  <2>3. CASE Closes
    BY <2>1, <2>2, <2>3, ClosingKeeps
  <2>4. CASE UNCHANGED <<dialogs, waiter>>
    <3>1. SaveType' /\ Stacked' /\ Awaited' /\ Checked'
      BY <2>1, <2>4, NothingOpens DEF Inv, SaveType
    <3> QED
      BY <2>2, <3>1 DEF Inv
  <2> QED
    BY <2>1, <2>3, <2>4
<1>5. ASSUME NEW icon \in BOOLEAN, AnswersBackground(icon) PROVE Inv'
  <2>1. /\ dialogs # <<>> /\ Closes /\ PutAway(icon) /\ UNCHANGED <<form, asked, seq, cores, profile>>
    BY <1>5 DEF AnswersBackground, StayInBackground, InDialog, OnTop
  <2>2. ViewType' /\ profile' \in BOOLEAN
    BY <2>1 DEF Inv, ViewType, SaveType, PutAway
  <2> QED
    BY <2>1, <2>2, ClosingKeeps
<1>6. CASE CloseButton
  BY <1>6, ClosingTheWindowKeeps DEF CloseButton
<1>7. CASE Leaves
  <2>1. ViewType'
    BY <1>7 DEF Leaves, ViewType, Fresh, Pages
  <2>2. SaveType'
    BY <1>7, EmptyForm DEF Leaves, Inv, SaveType
  <2>3. Stacked' /\ Awaited' /\ Checked'
    BY <1>7 DEF Leaves, Stacked, Awaited, Checked
  <2> QED
    BY <2>1, <2>2, <2>3 DEF Inv
<1> QED
  BY <1>1, <1>2, <1>3, <1>4, <1>5, <1>6, <1>7 DEF Next

\* A core form that says it is checking is answered: its save is out with a worker,
\* and the save that is waited for has its own form open (ui/cores.rs:586,
\* core_save_waiter).
THEOREM FormsAreAnswered == Spec => []FormIsAnswered
<1>1. ShellInit => Inv
  <2> SUFFICES ASSUME ShellInit PROVE Inv
    OBVIOUS
  <2> USE DEF ShellInit, ScreenInit
  <2>1. ViewType
    BY DEF ViewType, Fresh, Pages
  <2>2. SaveType
    <3>1. profile \in BOOLEAN
      BY Zenon
    <3> QED
      BY <3>1, EmptyForm DEF SaveType
  <2>3. Stacked /\ Awaited /\ Checked
    BY DEF Stacked, Awaited, Checked
  <2> QED
    BY <2>1, <2>2, <2>3 DEF Inv
<1> QED
  BY <1>1, StepKeeps, InvGivesProperty, PTL DEF Spec

-----------------------------------------------------------------------------
(* The settings: types.                                                     *)

Contents == {Absent, Broken} \cup {Doc(s) : s \in Values}
Resolved == [xray_executable : Words, system_proxy : Words, status_page : {"on", "off"},
             exit_mode : Modes]
Started == [pc : {"moving", "removing", "up"}, env : Environments, stored : Values,
            error : BOOLEAN, used : Resolved, touched : BOOLEAN, unsaid : SUBSET Values]

DiskType == disk \in [Files -> Contents]
RunType == run = Down \/ run \in Started

(* The settings: the invariant.                                             *)

\* The same, the directory aside: it is read and never written.
Alike(s, t) == /\ s.xray_executable = t.xray_executable /\ s.system_proxy = t.system_proxy
               /\ s.status_page = t.status_page /\ s.exit_mode = t.exit_mode

Shown == run.pc # "down" => run.used = Resolve(run.stored, run.env)

\* Until somebody else touches the files, a start would read what this one did, or what
\* a save that was refused left there since.
Unaltered == run.pc # "down" /\ ~run.touched =>
             /\ ReadStored(disk, run.env).error = run.error
             /\ \A s \in run.unsaid : Alike(ReadStored(disk, run.env).stored, s)
             /\ run.unsaid = {} => Alike(ReadStored(disk, run.env).stored, run.stored)

\* The move, between its steps.
Moving == /\ run.pc = "moving" => /\ ReadStored(disk, run.env) = Found(run.stored, FALSE, TRUE)
          /\ run.pc = "removing" => /\ disk[ConfigPath(run.env)] = Doc(run.stored)
                                    /\ disk["legacy"].kind = "doc"
          /\ run.pc \in {"moving", "removing"} =>
                /\ run.error = FALSE /\ run.touched = FALSE /\ run.unsaid = {}

Kept == DiskType /\ RunType /\ Shown /\ Unaltered /\ Moving

-----------------------------------------------------------------------------
(* What a start reads.                                                      *)

LEMMA ContentFacts ==
    ASSUME NEW c \in Contents
    PROVE  /\ c.kind \in {"absent", "broken", "doc"}
           /\ c.kind = "absent" <=> c = Absent
           /\ c.kind = "broken" <=> c = Broken
           /\ c.kind = "doc" => c.stored \in Values
BY DEF Contents, Absent, Broken, Doc

LEMMA PathFacts ==
    ASSUME NEW env \in Environments
    PROVE  /\ ConfigPath(env) \in Files /\ ConfigPath(env) # "legacy" /\ "legacy" \in Files
           /\ DataDir(env) \in Dirs /\ DataDir(env) \in Words
           /\ env.config => ConfigPath(env) = "named"
           /\ ~env.config => ConfigPath(env) = DataDir(env) /\ DataDir(env) # "named"
           /\ env.config \in BOOLEAN /\ env.xray_executable \in Words /\ env.system_proxy \in Words
BY SettingsAssumption DEF ConfigPath, DataDir, Files, Dirs, None

\* The cases of read_stored, one by one.
LEMMA ReadFacts ==
    ASSUME NEW d \in [Files -> Contents], NEW env \in Environments
    PROVE  /\ d[ConfigPath(env)].kind = "doc" =>
                  ReadStored(d, env) = Found(d[ConfigPath(env)].stored, FALSE, FALSE)
           /\ d[ConfigPath(env)].kind = "broken" => ReadStored(d, env) = Found(Default, TRUE, FALSE)
           /\ d[ConfigPath(env)].kind = "absent" /\ (env.config \/ d["legacy"].kind = "absent") =>
                  ReadStored(d, env) = Found(Default, FALSE, FALSE)
           /\ d[ConfigPath(env)].kind = "absent" /\ ~env.config /\ d["legacy"].kind = "broken" =>
                  ReadStored(d, env) = Found(Default, TRUE, FALSE)
           /\ d[ConfigPath(env)].kind = "absent" /\ ~env.config /\ d["legacy"].kind = "doc" =>
                  ReadStored(d, env) =
                      IF d["legacy"].stored.data_dir \in {None, DataDir(env)}
                      THEN Found([d["legacy"].stored EXCEPT !.data_dir = None], FALSE, TRUE)
                      ELSE Found(d["legacy"].stored, FALSE, FALSE)
<1>1. /\ d[ConfigPath(env)] \in Contents /\ d["legacy"] \in Contents
      /\ env.config \in BOOLEAN
  BY PathFacts
<1>2. /\ d[ConfigPath(env)].kind \in {"absent", "broken", "doc"}
      /\ d["legacy"].kind \in {"absent", "broken", "doc"}
  BY <1>1, ContentFacts
<1>3. QED
  BY <1>1, <1>2 DEF ReadStored

LEMMA DefaultIsValue == Default \in Values
BY SettingsAssumption DEF Default, Values, None

LEMMA ReadType ==
    ASSUME NEW d \in [Files -> Contents], NEW env \in Environments
    PROVE  /\ ReadStored(d, env).stored \in Values /\ ReadStored(d, env).error \in BOOLEAN
           /\ ReadStored(d, env).moves \in BOOLEAN
           /\ ReadStored(d, env) = Found(ReadStored(d, env).stored, ReadStored(d, env).error,
                                         ReadStored(d, env).moves)
<1>1. /\ d[ConfigPath(env)] \in Contents /\ d["legacy"] \in Contents
      /\ env.config \in BOOLEAN
  BY PathFacts
<1>2. /\ d[ConfigPath(env)].kind \in {"absent", "broken", "doc"}
      /\ d["legacy"].kind \in {"absent", "broken", "doc"}
      /\ d[ConfigPath(env)].kind = "doc" => d[ConfigPath(env)].stored \in Values
      /\ d["legacy"].kind = "doc" => /\ d["legacy"].stored \in Values
                                     /\ [d["legacy"].stored EXCEPT !.data_dir = None] \in Values
  <2>1. \A s \in Values : [s EXCEPT !.data_dir = None] \in Values
    BY SettingsAssumption DEF Values
  <2>2. QED
    BY <1>1, <2>1, ContentFacts
<1>3. \E s \in Values, e \in BOOLEAN, m \in BOOLEAN : ReadStored(d, env) = Found(s, e, m)
  <2>1. CASE d[ConfigPath(env)].kind # "absent" \/ env.config \/ d["legacy"].kind # "doc"
    BY <1>1, <1>2, <2>1, ReadFacts, DefaultIsValue
  <2>2. CASE d[ConfigPath(env)].kind = "absent" /\ ~env.config /\ d["legacy"].kind = "doc"
    BY <1>2, <2>2, ReadFacts
  <2>3. QED
    BY <2>1, <2>2
<1>4. QED
  BY <1>3 DEF Found

\* A start that has to move the older file: its own is absent, and the older one
\* is a document for the same directory.
LEMMA MovesFacts ==
    ASSUME NEW d \in [Files -> Contents], NEW env \in Environments, ReadStored(d, env).moves
    PROVE  /\ d[ConfigPath(env)].kind = "absent" /\ ~env.config /\ d["legacy"].kind = "doc"
           /\ d["legacy"].stored.data_dir \in {None, DataDir(env)}
           /\ ReadStored(d, env) =
                  Found([d["legacy"].stored EXCEPT !.data_dir = None], FALSE, TRUE)
<1>1. /\ d[ConfigPath(env)] \in Contents /\ d["legacy"] \in Contents
      /\ env.config \in BOOLEAN
  BY PathFacts
<1>2. /\ d[ConfigPath(env)].kind \in {"absent", "broken", "doc"}
      /\ d["legacy"].kind \in {"absent", "broken", "doc"}
  BY <1>1, ContentFacts
<1>3. QED
  BY <1>1, <1>2, ReadFacts DEF Found

\* Resolving looks at every field but the directory.
LEMMA ResolveFacts ==
    ASSUME NEW s \in Values, NEW env \in Environments
    PROVE  /\ Resolve(s, env) \in Resolved
           /\ \A t \in Values : Alike(s, t) => Resolve(s, env) = Resolve(t, env)
<1>1. env.xray_executable \in Words /\ env.system_proxy \in Words
  BY PathFacts
<1>2. Resolve(s, env) \in Resolved
  BY <1>1, SettingsAssumption DEF Resolve, Resolved, Values, OrElse, SwitchOn, None, Modes
<1>3. QED
  BY <1>2 DEF Resolve, Alike

\* A doc in a start's own file is what it reads.
LEMMA DocIsRead ==
    ASSUME NEW d \in [Files -> Contents], NEW env \in Environments, NEW s \in Values,
           d[ConfigPath(env)] = Doc(s)
    PROVE  ReadStored(d, env) = Found(s, FALSE, FALSE)
<1>1. d[ConfigPath(env)].kind = "doc" /\ d[ConfigPath(env)].stored = s
  BY DEF Doc
<1>2. ReadStored(d, env) = Found(d[ConfigPath(env)].stored, FALSE, FALSE)
  BY <1>1, ReadFacts
<1>3. QED
  BY <1>1, <1>2

LEMMA RunFacts ==
    ASSUME RunType, run.pc # "down"
    PROVE  /\ run \in Started /\ run.env \in Environments /\ run.stored \in Values
           /\ run.pc \in {"moving", "removing", "up"} /\ run.error \in BOOLEAN
           /\ run.used \in Resolved /\ run.touched \in BOOLEAN /\ run.unsaid \in SUBSET Values
BY DEF RunType, Started, Down

LEMMA DownFacts == Down.pc = "down" /\ Down \notin Started
BY DEF Down, Started

-----------------------------------------------------------------------------
(* The steps of a start.                                                    *)

LEMMA LoadKeeps ==
    ASSUME Kept, NEW env \in Environments, Load(env)
    PROVE  Kept'
<1> DEFINE found == ReadStored(disk, env)
<1>1. /\ run' = [pc |-> IF found.moves THEN "moving" ELSE "up", env |-> env,
                 stored |-> found.stored, error |-> found.error,
                 used |-> Resolve(found.stored, env), touched |-> FALSE, unsaid |-> {}]
      /\ disk' = disk
  BY DEF Load
<1>2. disk \in [Files -> Contents]
  BY DEF Kept, DiskType
<1>3. /\ found.stored \in Values /\ found.error \in BOOLEAN /\ found.moves \in BOOLEAN
      /\ Resolve(found.stored, env) \in Resolved
      /\ found.moves => found = Found(found.stored, FALSE, TRUE)
  BY <1>2, ReadType, ResolveFacts, MovesFacts DEF Found
<1> HIDE DEF found
<1>4. run' \in Started
  BY <1>1, <1>3 DEF Started
<1>5. /\ run'.pc = (IF found.moves THEN "moving" ELSE "up") /\ run'.env = env
      /\ run'.stored = found.stored /\ run'.error = found.error
      /\ run'.used = Resolve(found.stored, env) /\ run'.touched = FALSE /\ run'.unsaid = {}
  BY <1>1
<1>6. ReadStored(disk', run'.env) = found
  BY <1>1, <1>5 DEF found
<1>7. DiskType' /\ RunType' /\ Shown'
  BY <1>1, <1>4, <1>5 DEF Kept, DiskType, RunType, Shown
<1>8. Unaltered'
  BY <1>5, <1>6 DEF Unaltered, Alike
<1>9. Moving'
  BY <1>3, <1>5, <1>6 DEF Moving, Found
<1>10. QED
  BY <1>7, <1>8, <1>9 DEF Kept

\* Both ways, the values are the ones that were read.
LEMMA MoveKeeps ==
    ASSUME Kept, MoveWritten \/ MoveNotWritten
    PROVE  Kept'
<1>1. run.pc = "moving" /\ run \in Started /\ run.env \in Environments /\ run.stored \in Values
  BY RunFacts DEF Kept, MoveWritten, MoveNotWritten
<1>2. ReadStored(disk, run.env) = Found(run.stored, FALSE, TRUE) /\ run.error = FALSE /\ run.touched = FALSE
      /\ run.unsaid = {}
  BY <1>1 DEF Kept, Moving
<1>3. disk \in [Files -> Contents] /\ ConfigPath(run.env) \in Files
      /\ "legacy" \in Files /\ ConfigPath(run.env) # "legacy" /\ Doc(run.stored) \in Contents
  BY <1>1, PathFacts DEF Kept, DiskType, Contents
<1>4. disk["legacy"].kind = "doc"
  BY <1>1, <1>2, <1>3, MovesFacts DEF Found
<1>5. PICK pc \in {"removing", "up"} :
           /\ run' = [run EXCEPT !.pc = pc]
           /\ \/ disk' = [disk EXCEPT ![ConfigPath(run.env)] = Doc(run.stored)]
              \/ disk' = disk /\ pc = "up"
  BY DEF MoveWritten, MoveNotWritten
<1>6. /\ run' \in Started /\ run'.pc = pc /\ run'.env = run.env
      /\ run'.stored = run.stored /\ run'.error = run.error /\ run'.used = run.used
      /\ run'.touched = run.touched /\ run'.unsaid = run.unsaid
  BY <1>1, <1>5 DEF Started
<1>7. CASE disk' = [disk EXCEPT ![ConfigPath(run.env)] = Doc(run.stored)]
  <2>1. /\ disk' \in [Files -> Contents] /\ disk'[ConfigPath(run.env)] = Doc(run.stored)
        /\ disk'["legacy"] = disk["legacy"]
    BY <1>3, <1>7
  <2>2. PICK d \in [Files -> Contents] : d = disk'
    BY <2>1
  <2>3. PICK env \in Environments, s \in Values : env = run.env /\ s = run.stored
    BY <1>1
  <2>4. ReadStored(d, env) = Found(s, FALSE, FALSE)
    BY <2>1, <2>2, <2>3, DocIsRead
  <2>5. ReadStored(disk', run'.env) = Found(run.stored, FALSE, FALSE)
    BY <1>6, <2>2, <2>3, <2>4
  <2>6. DiskType' /\ RunType' /\ Shown'
    BY <1>1, <1>6, <2>1 DEF Kept, DiskType, RunType, Shown
  <2>7. Unaltered'
    <3>1. /\ ReadStored(disk', run'.env).error = FALSE
          /\ ReadStored(disk', run'.env).stored = run.stored
      BY <2>5 DEF Found
    <3>2. run'.error = FALSE /\ run'.stored = run.stored /\ run'.unsaid = {}
      BY <1>2, <1>6
    <3>3. QED
      BY <3>1, <3>2 DEF Unaltered, Alike
  <2>8. Moving'
    BY <1>2, <1>4, <1>6, <2>1 DEF Moving
  <2>9. QED
    BY <2>6, <2>7, <2>8 DEF Kept
<1>8. CASE disk' = disk /\ pc = "up"
  BY <1>1, <1>6, <1>8 DEF Kept, DiskType, RunType, Shown, Unaltered, Moving
<1>9. QED
  BY <1>5, <1>7, <1>8

LEMMA RemovedKeeps ==
    ASSUME Kept, LegacyRemoved
    PROVE  Kept'
<1>1. /\ run.pc = "removing" /\ run' = [run EXCEPT !.pc = "up"]
      /\ disk' = [disk EXCEPT !["legacy"] = Absent] \/ disk' = disk
  <2>1. PICK gone \in BOOLEAN : disk' = [disk EXCEPT !["legacy"] = IF gone THEN Absent ELSE @]
    BY DEF LegacyRemoved
  <2>2. disk' = [disk EXCEPT !["legacy"] = Absent] \/ disk' = disk
    BY <2>1, PathFacts DEF Kept, DiskType
  <2>3. QED
    BY <2>2 DEF LegacyRemoved
<1>2. run \in Started /\ run.env \in Environments /\ run.stored \in Values
  BY <1>1, RunFacts DEF Kept
<1>3. /\ disk[ConfigPath(run.env)] = Doc(run.stored)
      /\ run.error = FALSE /\ run.touched = FALSE /\ run.unsaid = {}
  BY <1>1 DEF Kept, Moving
<1>4. Absent \in Contents /\ disk \in [Files -> Contents] /\ ConfigPath(run.env) # "legacy"
      /\ ConfigPath(run.env) \in Files
  BY <1>2, PathFacts DEF Kept, DiskType, Contents
<1>5. disk' \in [Files -> Contents] /\ disk'[ConfigPath(run.env)] = Doc(run.stored)
  BY <1>1, <1>3, <1>4
<1>6. PICK d \in [Files -> Contents] : d = disk'
  BY <1>5
<1>7. PICK env \in Environments, s \in Values : env = run.env /\ s = run.stored
  BY <1>2
<1>8. ReadStored(d, env) = Found(s, FALSE, FALSE)
  BY <1>5, <1>6, <1>7, DocIsRead
<1>9. /\ run' \in Started /\ run'.pc = "up" /\ run'.env = run.env
      /\ run'.stored = run.stored /\ run'.error = run.error /\ run'.used = run.used
      /\ run'.touched = run.touched /\ run'.unsaid = run.unsaid
  BY <1>1, <1>2 DEF Started
<1>10. ReadStored(disk', run'.env) = Found(run.stored, FALSE, FALSE)
  BY <1>6, <1>7, <1>8, <1>9
<1>11. Unaltered'
  <2>1. /\ ReadStored(disk', run'.env).error = FALSE
        /\ ReadStored(disk', run'.env).stored = run.stored
    BY <1>10 DEF Found
  <2>2. run'.error = FALSE /\ run'.stored = run.stored /\ run'.unsaid = {}
    BY <1>3, <1>9
  <2>3. QED
    BY <2>1, <2>2 DEF Unaltered, Alike
<1>12. QED
  BY <1>2, <1>5, <1>9, <1>1, <1>11 DEF Kept, DiskType, RunType, Shown, Moving

-----------------------------------------------------------------------------
(* The other steps.                                                         *)

LEMMA EndsKeeps ==
    ASSUME Kept, Ends
    PROVE  Kept'
BY DownFacts DEF Kept, Ends, DiskType, RunType, Shown, Unaltered, Moving

\* Whoever edits the files while the program runs has touched them.
LEMMA HandEditKeeps ==
    ASSUME Kept, HandEdit
    PROVE  Kept'
<1>1. PICK f \in Files, c \in {Absent, Broken} \cup {Doc(s) : s \in Documents} :
          disk' = [disk EXCEPT ![f] = c]
  BY DEF HandEdit
<1>2. c \in Contents
  BY SettingsAssumption DEF Contents
<1>3. DiskType'
  BY <1>1, <1>2 DEF Kept, DiskType
<1>4. CASE run.pc = "down"
  <2>1. run' = run
    BY <1>4 DEF HandEdit
  <2>2. QED
    BY <1>3, <1>4, <2>1 DEF Kept, RunType, Shown, Unaltered, Moving
<1>5. CASE run.pc = "up"
  <2>1. run \in Started /\ run' = [run EXCEPT !.touched = TRUE]
    BY <1>5, RunFacts DEF Kept, HandEdit
  <2>2. /\ run' \in Started /\ run'.pc = "up" /\ run'.env = run.env
        /\ run'.stored = run.stored /\ run'.used = run.used /\ run'.touched = TRUE
    BY <1>5, <2>1 DEF Started
  <2>3. QED
    BY <1>3, <1>5, <2>2 DEF Kept, RunType, Shown, Unaltered, Moving
<1>6. QED
  BY <1>4, <1>5 DEF HandEdit

\* Another copy that moves the older file leaves what it moved to be read.
LEMMA SecondLoadKeeps ==
    ASSUME Kept, NEW env \in Environments, SecondLoad(env)
    PROVE  Kept'
<1> DEFINE found == ReadStored(disk, env)
<1>1. /\ run.pc = "up" /\ found.moves
      /\ disk' = [disk EXCEPT ![ConfigPath(env)] = Doc(found.stored), !["legacy"] = Absent]
      /\ run' = [run EXCEPT !.touched = @ \/ env # run.env]
  BY DEF SecondLoad
<1>2. disk \in [Files -> Contents] /\ ConfigPath(env) \in Files /\ ConfigPath(env) # "legacy"
      /\ "legacy" \in Files
  BY PathFacts DEF Kept, DiskType
<1>3. found.stored \in Values /\ found.error = FALSE
  BY <1>1, <1>2, ReadType, MovesFacts DEF Found
<1>4. PICK s \in Values : s = found.stored
  BY <1>3
<1>5. ~run'.touched => ~run.touched /\ run.env = env
  BY <1>1, RunFacts DEF Kept, Started
<1>6. run \in Started
  BY <1>1, RunFacts DEF Kept
<1>7. ~run.touched /\ run.env = env =>
         /\ run.error = FALSE /\ \A u \in run.unsaid : Alike(s, u)
         /\ run.unsaid = {} => Alike(s, run.stored)
  BY <1>1, <1>3, <1>4 DEF Kept, Unaltered
<1> HIDE DEF found
<1>8. Doc(s) \in Contents /\ Absent \in Contents
  BY DEF Contents
<1>9. disk' \in [Files -> Contents] /\ disk'[ConfigPath(env)] = Doc(s)
  BY <1>1, <1>2, <1>4, <1>8
<1>10. PICK d \in [Files -> Contents] : d = disk'
  BY <1>9
<1>11. ReadStored(d, env) = Found(s, FALSE, FALSE)
  BY <1>9, <1>10, DocIsRead
<1>12. /\ run' \in Started /\ run'.pc = "up" /\ run'.env = run.env
       /\ run'.stored = run.stored /\ run'.error = run.error /\ run'.used = run.used
       /\ run'.unsaid = run.unsaid
  BY <1>1, <1>6 DEF Started
<1>13. ASSUME ~run'.touched
       PROVE  /\ ReadStored(disk', run'.env).error = run'.error
              /\ \A u \in run'.unsaid : Alike(ReadStored(disk', run'.env).stored, u)
              /\ run'.unsaid = {} => Alike(ReadStored(disk', run'.env).stored, run'.stored)
  <2>1. /\ run'.env = env /\ run'.error = FALSE /\ \A u \in run'.unsaid : Alike(s, u)
        /\ run'.unsaid = {} => Alike(s, run'.stored)
    BY <1>5, <1>7, <1>12, <1>13
  <2>2. ReadStored(disk', run'.env) = Found(s, FALSE, FALSE)
    BY <1>10, <1>11, <2>1
  <2>3. ReadStored(disk', run'.env).error = FALSE /\ ReadStored(disk', run'.env).stored = s
    BY <2>2 DEF Found
  <2>4. QED
    BY <2>1, <2>3
<1>14. Unaltered'
  BY <1>13 DEF Unaltered
<1>15. Shown'
  BY <1>1, <1>12 DEF Kept, Shown
<1>16. DiskType' /\ RunType' /\ Moving'
  BY <1>9, <1>12 DEF DiskType, RunType, Moving
<1>17. QED
  BY <1>14, <1>15, <1>16 DEF Kept

\* A save writes what it then shows, or, when it is refused, what nobody shows.
LEMMA StoreKeeps ==
    ASSUME Kept, NEW s \in Values, NEW used, Store(s, used), used = Resolve(s, run.env)
    PROVE  Kept'
<1>1. /\ run.pc = "up" /\ ~run.error
      /\ disk' = [disk EXCEPT ![ConfigPath(run.env)] = Doc([s EXCEPT !.data_dir = None])]
      /\ run' = [run EXCEPT !.stored = s, !.used = used, !.unsaid = {}] \/ run' = [run EXCEPT !.unsaid = {s}]
  BY DEF Store, MayWrite, Writes
<1>2. run \in Started /\ run.env \in Environments /\ run.error = FALSE
  BY <1>1, RunFacts DEF Kept
<1>3. PICK env \in Environments : env = run.env
  BY <1>2
<1>4. PICK t \in Values : t = [s EXCEPT !.data_dir = None] /\ Alike(t, s)
  <2>1. [s EXCEPT !.data_dir = None] \in Values
    BY SettingsAssumption DEF Values
  <2>2. Alike([s EXCEPT !.data_dir = None], s)
    BY DEF Values, Alike
  <2>3. QED
    BY <2>1, <2>2
<1>5. disk \in [Files -> Contents] /\ ConfigPath(env) \in Files /\ ConfigPath(env) # "legacy"
      /\ Doc(t) \in Contents
  BY PathFacts DEF Kept, DiskType, Contents
<1>6. disk' \in [Files -> Contents] /\ disk'[ConfigPath(env)] = Doc(t)
  BY <1>1, <1>3, <1>4, <1>5
<1>7. PICK d \in [Files -> Contents] : d = disk'
  BY <1>6
<1>8. ReadStored(d, env) = Found(t, FALSE, FALSE)
  BY <1>6, <1>7, DocIsRead
<1>9. used \in Resolved /\ used = Resolve(s, env)
  BY <1>3, ResolveFacts
<1>10. /\ run' \in Started /\ run'.pc = "up" /\ run'.env = run.env /\ run'.error = FALSE
       /\ run'.used = Resolve(run'.stored, env)
       /\ (run'.unsaid = {} /\ run'.stored = s) \/ run'.unsaid = {s}
  <2>1. CASE run' = [run EXCEPT !.stored = s, !.used = used, !.unsaid = {}]
    <3>1. run' = [pc |-> "up", env |-> run.env, stored |-> s, error |-> FALSE, used |-> used,
                  touched |-> run.touched, unsaid |-> {}]
      BY <1>1, <1>2, <2>1 DEF Started
    <3>2. QED
      BY <1>2, <1>9, <3>1 DEF Started
  <2>2. CASE run' = [run EXCEPT !.unsaid = {s}]
    BY <1>1, <1>2, <1>3, <2>2 DEF Started, Kept, Shown
  <2>3. QED
    BY <1>1, <2>1, <2>2
<1>11. ReadStored(disk', run'.env) = Found(t, FALSE, FALSE)
  BY <1>3, <1>7, <1>8, <1>10
<1>12. ReadStored(disk', run'.env).error = FALSE /\ ReadStored(disk', run'.env).stored = t
  BY <1>11 DEF Found
<1>13. Unaltered'
  BY <1>4, <1>10, <1>12 DEF Unaltered
<1>14. Shown'
  BY <1>3, <1>9, <1>10 DEF Shown
<1>15. QED
  BY <1>6, <1>10, <1>13, <1>14 DEF Kept, DiskType, RunType, Moving

Controls == \/ \E value \in Typed \cup {run.used.xray_executable} : SetPath(value)
            \/ \E on \in BOOLEAN : SetSystemProxy(on) \/ SetStatusPage(on)
            \/ \E mode \in Modes : SetExitMode(mode)

\* Each control changes the one field it shows, and shows what the next start would.
LEMMA ControlStores ==
    ASSUME Kept, Controls
    PROVE  \E s \in Values : \E used : used = Resolve(s, run.env) /\ Store(s, used)
<1>1. run.pc = "up"
  BY DEF Controls, SetPath, SetSystemProxy, SetStatusPage, SetExitMode, Store, MayWrite
<1>2. /\ run.env \in Environments /\ run.stored \in Values /\ run.used \in Resolved
      /\ run.used = Resolve(run.stored, run.env)
  BY <1>1, RunFacts DEF Kept, Shown
<1>3. CASE \E value \in Typed \cup {run.used.xray_executable} : SetPath(value)
  <2>1. PICK value \in Words : SetPath(value)
    BY <1>2, <1>3, SettingsAssumption DEF Resolved
  <2>2. PICK s, used : /\ s = [run.stored EXCEPT !.xray_executable = value]
                       /\ used = [run.used EXCEPT
                                     !.xray_executable = Resolve(s, run.env).xray_executable]
    OBVIOUS
  <2>3. s \in Values
    BY <1>2, <2>2 DEF Values
  <2>4. used = Resolve(s, run.env)
    BY <1>2, <2>2 DEF Resolve, Values
  <2>5. Store(s, used)
    BY <2>1, <2>2 DEF SetPath
  <2>6. QED
    BY <2>3, <2>4, <2>5
<1>4. CASE \E on \in BOOLEAN : SetSystemProxy(on)
  <2>1. PICK on \in BOOLEAN : SetSystemProxy(on)
    BY <1>4
  <2>2. PICK s, used : /\ s = [run.stored EXCEPT !.system_proxy = IF on THEN "on" ELSE None]
                       /\ used = [run.used EXCEPT
                                     !.system_proxy = Resolve(s, run.env).system_proxy]
    OBVIOUS
  <2>3. s \in Values
    BY <1>2, <2>2, SettingsAssumption DEF Values
  <2>4. used = Resolve(s, run.env)
    BY <1>2, <2>2 DEF Resolve, Values
  <2>5. Store(s, used)
    BY <2>1, <2>2 DEF SetSystemProxy
  <2>6. QED
    BY <2>3, <2>4, <2>5
<1>5. CASE \E on \in BOOLEAN : SetStatusPage(on)
  <2>1. PICK on \in BOOLEAN : SetStatusPage(on)
    BY <1>5
  <2>2. PICK s, used : /\ s = [run.stored EXCEPT !.status_page = IF on THEN None ELSE "off"]
                       /\ used = [run.used EXCEPT !.status_page = Resolve(s, run.env).status_page]
    OBVIOUS
  <2>3. s \in Values
    BY <1>2, <2>2, SettingsAssumption DEF Values
  <2>4. used = Resolve(s, run.env)
    BY <1>2, <2>2 DEF Resolve, Values
  <2>5. Store(s, used)
    BY <2>1, <2>2 DEF SetStatusPage
  <2>6. QED
    BY <2>3, <2>4, <2>5
<1>6. CASE \E mode \in Modes : SetExitMode(mode)
  <2>1. PICK mode \in Modes : SetExitMode(mode)
    BY <1>6
  <2>2. PICK s, used : /\ s = [run.stored EXCEPT !.exit_mode = mode]
                       /\ used = [run.used EXCEPT !.exit_mode = mode]
    OBVIOUS
  <2>3. s \in Values
    BY <1>2, <2>2, SettingsAssumption DEF Values
  <2>4. used = Resolve(s, run.env)
    BY <1>2, <2>2 DEF Resolve, Values
  <2>5. Store(s, used)
    BY <2>1, <2>2 DEF SetExitMode
  <2>6. QED
    BY <2>3, <2>4, <2>5
<1>7. QED
  BY <1>3, <1>4, <1>5, <1>6 DEF Controls

LEMMA ControlsKeep ==
    ASSUME Kept, Controls
    PROVE  Kept'
BY ControlStores, StoreKeeps

LEMMA ControlWrites ==
    ASSUME Kept, Controls
    PROVE  /\ run.pc = "up" /\ ~run.error
           /\ saves' = saves + 1 /\ starts' = starts /\ edits' = edits
           /\ \E s : disk' = [disk EXCEPT ![ConfigPath(run.env)] = Doc(s)]
<1>1. PICK s \in Values : \E used : Store(s, used)
  BY ControlStores
<1>2. QED
  BY <1>1, Zenon DEF Store, MayWrite, Writes

LEMMA SettingsUnchanged ==
    ASSUME Kept, UNCHANGED settings
    PROVE  Kept'
BY DEF settings, Kept, DiskType, RunType, Shown, Unaltered, Moving

LEMMA KeptHolds ==
    ASSUME ShellInit
    PROVE  Kept
<1>1. run = Down /\ disk \in [Files -> {Absent} \cup {Doc(s) : s \in Documents}]
  BY DEF ShellInit, Init
<1>2. DiskType
  BY <1>1, SettingsAssumption DEF DiskType, Contents
<1>3. QED
  BY <1>1, <1>2, DownFacts DEF Kept, RunType, Shown, Unaltered, Moving

\* What a step does to the settings.
Edits == \/ HandEdit
         \/ \E env \in Environments : SecondLoad(env)

LEMMA SettingsSteps ==
    ASSUME [Next]_vars
    PROVE  Loading \/ Edits \/ Controls \/ Ends \/ UNCHANGED settings
<1>1. CASE Starts \/ Elsewhere
  BY <1>1 DEF Starts, Elsewhere, Others, Edits
<1>2. CASE Reads \/ CloseButton \/ Leaves
  BY <1>2 DEF Reads, CloseButton, Leaves
<1>3. CASE PageSaves \/ DialogSaves
  BY <1>3 DEF PageSaves, DialogSaves, Controls
<1>4. CASE \E icon \in BOOLEAN : AnswersBackground(icon)
  BY <1>4 DEF AnswersBackground, Controls, Modes
<1>5. CASE UNCHANGED vars
  BY <1>5 DEF vars
<1>6. QED
  BY <1>1, <1>2, <1>3, <1>4, <1>5 DEF Next

LEMMA SettingsKept ==
    ASSUME Kept, [Next]_vars
    PROVE  Kept'
<1>1. CASE Loading
  BY <1>1, LoadKeeps, MoveKeeps, RemovedKeeps DEF Loading
<1>2. CASE Edits
  BY <1>2, HandEditKeeps, SecondLoadKeeps DEF Edits
<1>3. CASE Controls
  BY <1>3, ControlsKeep
<1>4. QED
  BY <1>1, <1>2, <1>3, EndsKeeps, SettingsUnchanged, SettingsSteps

-----------------------------------------------------------------------------
(* What the page shows.                                                     *)

\* An overridden value is the one a start without the variable would use, a value of
\* the file's is the one in it, and a value of nobody's is the default.
LEMMA RowFacts ==
    ASSUME NEW s \in Values, NEW env \in Environments, NEW key \in {"xray_executable", "system_proxy"}
    PROVE  /\ Known(key, env[key]) # None /\ Known(key, s[key]) # None =>
                  Resolve(s, [env EXCEPT ![key] = None])[key] = Known(key, s[key])
           /\ Known(key, env[key]) = None /\ Known(key, s[key]) # None =>
                  Resolve(s, env)[key] = Known(key, s[key])
           /\ Known(key, env[key]) = None /\ Known(key, s[key]) = None =>
                  Resolve(s, env)[key] = Resolve(Default, env)[key]
<1>1. env \in [data_dir : Dirs \cup {None}, config : BOOLEAN,
               xray_executable : Words, system_proxy : Words]
  BY SettingsAssumption
<1>2. CASE key = "xray_executable"
  BY <1>1, <1>2 DEF Known, Resolve, OrElse, SwitchOn, None, Default, Values
<1>3. CASE key = "system_proxy"
  BY <1>1, <1>3 DEF Known, Resolve, OrElse, SwitchOn, None, Default, Values
<1>4. QED
  BY <1>2, <1>3

LEMMA KeptTells ==
    ASSUME Kept
    PROVE  PageTellsNextStart
<1>1. SettingsTypeOK
  <2>1. \A f \in Files : disk[f].kind \in {"absent", "broken", "doc"}
    BY ContentFacts DEF Kept, DiskType
  <2>2. run.pc \in {"down", "moving", "removing", "up"}
    BY RunFacts
    DEF Kept
  <2>3. run.pc # "down" => run.used.exit_mode \in Modes
    BY RunFacts DEF Kept, Resolved
  <2>4. QED
    BY <2>1, <2>2, <2>3 DEF SettingsTypeOK
<1>2. ASSUME run.pc = "up", ~run.touched
      PROVE  LET next == ReadStored(disk, run.env)
             IN /\ next.error = run.error
                /\ \A s \in run.unsaid : Resolve(next.stored, run.env) = Resolve(s, run.env)
                /\ run.unsaid = {} =>
                     /\ Resolve(next.stored, run.env) = run.used
                     /\ \A key \in {"xray_executable", "system_proxy"} :
                          RowIsRight(key, next.stored)
  <2>1. PICK next : next = ReadStored(disk, run.env).stored
    OBVIOUS
  <2>2. /\ ReadStored(disk, run.env).error = run.error
        /\ \A s \in run.unsaid : Alike(next, s)
        /\ run.unsaid = {} => Alike(next, run.stored)
    BY <1>2, <2>1 DEF Kept, Unaltered
  <2>3. /\ run.env \in Environments /\ run.stored \in Values /\ run.unsaid \in SUBSET Values
        /\ run.used = Resolve(run.stored, run.env)
    BY <1>2, RunFacts DEF Kept, Shown
  <2>4. next \in Values
    BY <2>1, <2>3, ReadType DEF Kept, DiskType
  <2>5. PICK s \in Values, env \in Environments : s = run.stored /\ env = run.env
    BY <2>3
  <2>6. \A u \in run.unsaid : Resolve(next, env) = Resolve(u, env)
    BY <2>2, <2>3, <2>4, ResolveFacts
  <2>7. ASSUME run.unsaid = {}  PROVE Resolve(next, env) = Resolve(s, env) /\ Alike(next, s)
    BY <2>2, <2>4, <2>5, <2>7, ResolveFacts
  <2>8. ASSUME run.unsaid = {}, NEW key \in {"xray_executable", "system_proxy"}
        PROVE  RowIsRight(key, next)
    <3>1. next[key] = s[key]
      BY <2>7, <2>8 DEF Alike
    <3>2. /\ Row(key).value = Resolve(s, env)[key]
          /\ Row(key).shadowed = IF Known(key, env[key]) # None THEN Known(key, s[key]) ELSE None
          /\ Row(key).source = "file" => Known(key, env[key]) = None /\ Known(key, s[key]) # None
          /\ Row(key).source = "default" => Known(key, env[key]) = None /\ Known(key, s[key]) = None
      BY <2>3, <2>5 DEF Row, Shadowed, Source, FromEnvironment
    <3>3. /\ Known(key, env[key]) # None /\ Known(key, next[key]) # None =>
                  Resolve(next, [env EXCEPT ![key] = None])[key] = Known(key, next[key])
          /\ Known(key, env[key]) = None /\ Known(key, s[key]) # None =>
                  Resolve(s, env)[key] = Known(key, s[key])
          /\ Known(key, env[key]) = None /\ Known(key, s[key]) = None =>
                  Resolve(s, env)[key] = Resolve(Default, env)[key]
      BY <2>4, RowFacts
    <3>4. QED
      BY <2>5, <3>1, <3>2, <3>3 DEF RowIsRight
  <2>9. QED
    BY <2>1, <2>2, <2>3, <2>5, <2>6, <2>7, <2>8
<1>3. QED
  BY <1>1, <1>2 DEF PageTellsNextStart

\* Until somebody else edits the files, the page shows what the next start in the
\* same environment resolves and where each value comes from, unless a save was refused
\* after its file was in place: then that save is what the next start resolves.
THEOREM PagesTell == Spec => []PageTellsNextStart
<1>1. ShellInit => Kept
  BY KeptHolds
<1>2. Kept /\ [Next]_vars => Kept'
  BY SettingsKept
<1>3. Kept => PageTellsNextStart
  BY KeptTells
<1>4. QED
  BY <1>1, <1>2, <1>3, PTL DEF Spec

-----------------------------------------------------------------------------
(* What a start costs.                                                      *)

Counted == starts \in Nat /\ edits \in Nat /\ saves \in Nat

LEMMA CountedKept ==
    ASSUME Kept, Counted, [Next]_vars
    PROVE  Counted'
<1>1. CASE Loading
  BY <1>1 DEF Counted, Loading, Load, MoveWritten, MoveNotWritten, LegacyRemoved
<1>2. CASE Edits
  BY <1>2 DEF Counted, Edits, HandEdit, SecondLoad
<1>3. CASE Controls
  BY <1>3, ControlWrites DEF Counted
<1>4. CASE Ends \/ UNCHANGED settings
  BY <1>4 DEF Counted, Ends, settings
<1>5. QED
  BY <1>1, <1>2, <1>3, <1>4, SettingsSteps

\* A start reads the same before and after.
SameRead(p) == \A e \in Environments : ConfigPath(e) = p =>
                  ReadStored(disk', e).stored = ReadStored(disk, e).stored
\* A file that could not be read is written over.
Spoiled == \E f \in Files : disk[f] = Broken /\ disk'[f] # Broken

\* While the older file moves, it is one document that every start of the directory
\* reads: in the old place, in both, or in the new.
LEMMA MoveIsUnseen ==
    ASSUME Kept, MoveWritten \/ MoveNotWritten, disk' # disk
    PROVE  SameRead(ConfigPath(run.env)) /\ ~Spoiled
<1>1. run.pc = "moving" /\ run.env \in Environments /\ run.stored \in Values
  BY RunFacts DEF Kept, MoveWritten, MoveNotWritten
<1>2. /\ ReadStored(disk, run.env) = Found(run.stored, FALSE, TRUE)
      /\ disk' = [disk EXCEPT ![ConfigPath(run.env)] = Doc(run.stored)]
      /\ disk \in [Files -> Contents]
  BY <1>1 DEF Kept, Moving, MoveWritten, MoveNotWritten, DiskType
<1>3. PICK env \in Environments, s \in Values : env = run.env /\ s = run.stored
  BY <1>1
<1>4. PICK d \in [Files -> Contents] : d = disk
  BY <1>2
<1>5. ReadStored(d, env) = Found(s, FALSE, TRUE)
  BY <1>2, <1>3, <1>4
<1>6. /\ d[ConfigPath(env)].kind = "absent" /\ ~env.config /\ d["legacy"].kind = "doc"
      /\ d["legacy"].stored.data_dir \in {None, DataDir(env)}
      /\ s = [d["legacy"].stored EXCEPT !.data_dir = None]
  BY <1>5, MovesFacts DEF Found
<1>7. /\ ConfigPath(env) \in Files /\ ConfigPath(env) # "legacy" /\ ConfigPath(env) = DataDir(env)
      /\ DataDir(env) # "named" /\ Doc(s) \in Contents
  BY <1>6, PathFacts DEF Contents
<1>8. PICK after \in [Files -> Contents] : after = disk' /\ after[ConfigPath(env)] = Doc(s)
                                           /\ \A f \in Files \ {ConfigPath(env)} : after[f] = d[f]
  BY <1>2, <1>3, <1>4, <1>7
<1>9. ASSUME NEW e \in Environments, ConfigPath(e) = ConfigPath(env)
      PROVE  ReadStored(after, e).stored = ReadStored(d, e).stored
  <2>1. ~e.config /\ DataDir(e) = DataDir(env)
    BY <1>7, <1>9, PathFacts
  <2>2. ReadStored(d, e) = Found(s, FALSE, TRUE)
    <3>1. /\ d[ConfigPath(e)].kind = "absent" /\ ~e.config /\ d["legacy"].kind = "doc"
          /\ d["legacy"].stored.data_dir \in {None, DataDir(e)}
      BY <1>6, <1>9, <2>1
    <3>2. QED
      BY <1>6, <3>1, ReadFacts
  <2>3. ReadStored(after, e) = Found(s, FALSE, FALSE)
    <3>1. after[ConfigPath(e)] = Doc(s)
      BY <1>8, <1>9
    <3>2. QED
      BY <3>1, DocIsRead
  <2>4. QED
    BY <2>2, <2>3 DEF Found
<1>10. ~Spoiled
  BY <1>4, <1>6, <1>8 DEF Spoiled, Broken
<1>11. QED
  BY <1>3, <1>4, <1>8, <1>9, <1>10 DEF SameRead

LEMMA RemovalIsUnseen ==
    ASSUME Kept, LegacyRemoved
    PROVE  SameRead(ConfigPath(run.env)) /\ ~Spoiled
<1>1. run.pc = "removing" /\ run.env \in Environments /\ run.stored \in Values
  BY RunFacts DEF Kept, LegacyRemoved
<1>2. PICK d \in [Files -> Contents] : d = disk
  BY DEF Kept, DiskType
<1>3. PICK env \in Environments, s \in Values : env = run.env /\ s = run.stored
  BY <1>1
<1>4. d[ConfigPath(env)] = Doc(s) /\ d["legacy"].kind = "doc"
  BY <1>1, <1>2, <1>3 DEF Kept, Moving
<1>5. ConfigPath(env) \in Files /\ ConfigPath(env) # "legacy" /\ "legacy" \in Files
      /\ Absent \in Contents
  BY PathFacts DEF Contents
<1>6. PICK after \in [Files -> Contents] : after = disk' /\ \A f \in Files \ {"legacy"} : after[f] = d[f]
  BY <1>2, <1>5 DEF LegacyRemoved
<1>7. ASSUME NEW e \in Environments, ConfigPath(e) = ConfigPath(env)
      PROVE  ReadStored(after, e).stored = ReadStored(d, e).stored
  BY <1>4, <1>5, <1>6, <1>7, DocIsRead
<1>8. ~Spoiled
  BY <1>2, <1>4, <1>6 DEF Spoiled, Broken
<1>9. QED
  BY <1>2, <1>3, <1>6, <1>7, <1>8 DEF SameRead

\* What could not be read is not saved over, unless it was touched since.
LEMMA StoreSpoilsNothing ==
    ASSUME Kept, Controls, Spoiled
    PROVE  run.touched
<1>1. run.pc = "up" /\ ~run.error
      /\ \E s : disk' = [disk EXCEPT ![ConfigPath(run.env)] = Doc(s)]
  BY ControlWrites
<1>2. PICK env \in Environments : env = run.env
  BY <1>1, RunFacts DEF Kept
<1>3. PICK d \in [Files -> Contents] : d = disk
  BY DEF Kept, DiskType
<1>4. d[ConfigPath(env)] = Broken
  <2>1. PICK f \in Files : disk[f] = Broken /\ disk'[f] # Broken
    BY DEF Spoiled
  <2>2. PICK s : disk' = [d EXCEPT ![ConfigPath(env)] = Doc(s)]
    BY <1>1, <1>2, <1>3
  <2>3. \A g \in Files \ {ConfigPath(env)} : disk'[g] = d[g]
    BY <2>2
  <2>4. QED
    BY <1>3, <2>1, <2>3
<1>5. ReadStored(d, env) = Found(Default, TRUE, FALSE)
  <2>1. d[ConfigPath(env)].kind = "broken"
    BY <1>4 DEF Broken
  <2>2. QED
    BY <2>1, ReadFacts
<1>6. ReadStored(disk, run.env).error = TRUE
  BY <1>2, <1>3, <1>5 DEF Found
<1>7. QED
  BY <1>1, <1>6, RunFacts DEF Kept, Unaltered

LEMMA SecondLoadSpoilsNothing ==
    ASSUME Kept, NEW env \in Environments, SecondLoad(env)
    PROVE  ~Spoiled
<1>1. PICK d \in [Files -> Contents] : d = disk
  BY DEF Kept, DiskType
<1>2. ReadStored(d, env).moves
  BY <1>1 DEF SecondLoad
<1>3. d[ConfigPath(env)].kind = "absent" /\ d["legacy"].kind = "doc"
  BY <1>2, MovesFacts
<1>4. \A f \in Files \ {ConfigPath(env), "legacy"} : disk'[f] = d[f]
  BY <1>1, PathFacts DEF SecondLoad
<1>5. QED
  BY <1>1, <1>3, <1>4 DEF Spoiled, Broken

LEMMA StepLosesNothing ==
    ASSUME Kept, Counted, [Next]_vars
    PROVE  /\ edits' = edits /\ saves' = saves /\ (starts' # starts => run.pc = "down") =>
                 SameRead(ConfigPath(IF run.pc = "down" THEN run'.env ELSE run.env))
           /\ edits' = edits /\ Spoiled => run.touched
<1>1. CASE disk' = disk
  BY <1>1 DEF SameRead, Spoiled
<1>2. CASE MoveWritten \/ MoveNotWritten \/ LegacyRemoved
  <2>1. run.pc # "down"
    BY <1>2 DEF MoveWritten, MoveNotWritten, LegacyRemoved
  <2>2. QED
    BY <1>1, <1>2, <2>1, MoveIsUnseen, RemovalIsUnseen
<1>3. CASE HandEdit
  BY <1>3 DEF HandEdit, Counted
<1>4. ASSUME NEW env \in Environments, SecondLoad(env)
      PROVE  /\ starts' # starts /\ run.pc # "down"
             /\ ~Spoiled
  <2>1. starts' = starts + 1 /\ run.pc = "up"
    BY <1>4 DEF SecondLoad
  <2>2. ~Spoiled
    BY <1>4, SecondLoadSpoilsNothing
  <2>3. QED
    BY <2>1, <2>2 DEF Counted
<1>5. CASE Controls
  <2>1. saves' # saves
    BY <1>5, ControlWrites DEF Counted
  <2>2. QED
    BY <1>5, <2>1, StoreSpoilsNothing
<1>6. CASE (\E env \in Environments : Load(env)) \/ Ends \/ UNCHANGED settings
  BY <1>1, <1>6 DEF Load, Ends, settings
<1>7. QED
  BY <1>2, <1>3, <1>4, <1>5, <1>6, SettingsSteps DEF Loading, Edits

\* No step of a start costs a setting, a crash in the middle of the move included,
\* and a file that could not be read is never written over.
THEOREM StartsLoseNothing == Spec => NothingIsLost
<1>1. ShellInit => Kept /\ Counted
  BY KeptHolds DEF ShellInit, Init, Counted
<1>2. Kept /\ Counted /\ [Next]_vars => (Kept /\ Counted)'
  BY SettingsKept, CountedKept
<1>3. Kept /\ Counted /\ [Next]_vars =>
        [ /\ edits' = edits /\ saves' = saves /\ (starts' # starts => run.pc = "down")
             => LET env == IF run.pc = "down" THEN run'.env ELSE run.env
                IN \A e \in Environments : ConfigPath(e) = ConfigPath(env) =>
                     ReadStored(disk', e).stored = ReadStored(disk, e).stored
          /\ edits' = edits =>
               \A f \in Files : disk[f] = Broken /\ disk'[f] # Broken => run.touched
        ]_settings
  BY StepLosesNothing DEF SameRead, Spoiled
<1>4. QED
  BY <1>1, <1>2, <1>3, PTL DEF Spec, NothingIsLost

=============================================================================
