----------------------- MODULE BrowserDataIdentityProofs -----------------------
(***************************************************************************)
(* The transfer of browser data is atomic: proofs for any profiles, any    *)
(* number of browser runs and of kills.  And the verdicts on an identity   *)
(* are right: proofs for any profiles, installations, addresses and number *)
(* of changes.                                                             *)
(***************************************************************************)
EXTENDS BrowserData, Identity, TLAPS

(***************************************************************************)
(* The transfer of browser data.                                           *)
(***************************************************************************)


Rec == {"check"} \cup Clearing
Mid == {"claim", "record", "fill", "copying", "commit", "swap"}
Transferring == pc = "transfer" \/ pc \in Mid \/ (pc \in Rec /\ caller # "startup")
Starting == pc = "startup" \/ (pc \in Rec /\ caller = "startup")

\* A record of ours says whose the siblings are, and what was set aside is
\* whole as long as nothing has taken its place.
Owned ==
    \A d \in Dirs :
        /\ owner[d] = "valid" =>
              /\ displaced[d] # Foreign /\ staged[d] # Foreign
              /\ place[d] = Absent => displaced[d] # Partial
        /\ owner[d] # "valid" =>
              displaced[d] \in {Absent, Foreign} /\ staged[d] \in {Absent, Foreign}

\* How far the program is with the directory it works on.
Progress ==
    /\ pc \in Clearing \cup {"fill", "copying", "commit", "swap"} => owner[dir] = "valid"
    /\ pc = "claim" => owner[dir] = "none"
    /\ pc = "record" => owner[dir] = "torn"
    /\ pc \in {"claim", "record", "fill", "clear_owner"} => staged[dir] = Absent
    /\ pc \in {"claim", "record", "fill", "copying", "commit", "clear_staged", "clear_owner"}
          => displaced[dir] = Absent
    /\ pc = "clear_displaced" /\ place[dir] = Absent => displaced[dir] = Absent
    /\ pc \in {"commit", "swap"} => staged[dir] = place[Counterpart(dir)]
    /\ pc = "swap" => place[dir] = Absent /\ displaced[dir] \in Whole

\* What is still to be copied exists, on the side that is not written.
Sourced ==
    /\ Transferring => \A p \in todo : place[Counterpart(<<p, side>>)] # Absent
    /\ Transferring /\ pc # "transfer" => dir[2] = side
    /\ pc \in Mid \/ (pc \in Rec /\ caller = "before") => place[Counterpart(dir)] # Absent

Inv == TypeOK /\ Owned /\ Progress /\ Sourced

\* The two sides of a profile are two directories.
LEMMA DirFacts ==
    /\ \A d \in Dirs : Counterpart(d) \in Dirs /\ Counterpart(d) # d
                       /\ Counterpart(d)[2] # d[2] /\ d[2] \in Sides
    /\ \A p \in Profiles, s \in Sides : /\ <<p, s>> \in Dirs /\ <<p, s>>[2] = s
                                        /\ Counterpart(<<p, s>>)[2] # s
    /\ \A p \in Profiles : Own(p) \in Dirs /\ IsOwn(Own(p))
  BY DEF Dirs, Sides, Counterpart, Own, IsOwn

\* No set of runs is one of the marks.
LEMMA ContentFacts ==
    /\ Absent \notin Whole /\ Partial \notin Whole /\ Foreign \notin Whole
    /\ Absent # Partial /\ Absent # Foreign /\ Partial # Foreign
    /\ \A c \in {Absent} \cup Whole, r \in Runs :
          Held(c) \cup {r} \in Whole /\ Held(c) \cup {r} # Absent
  <1>1. -1 \notin Runs /\ -2 \notin Runs /\ -3 \notin Runs
    BY RunAssumption DEF Runs
  <1>2. Absent \notin Whole /\ Partial \notin Whole /\ Foreign \notin Whole
    BY <1>1 DEF Whole, Absent, Partial, Foreign
  <1>3. Absent # Partial /\ Absent # Foreign /\ Partial # Foreign
    <2>1. -1 \in Absent /\ -1 \notin Partial /\ -1 \notin Foreign
      BY DEF Absent, Partial, Foreign
    <2>2. -2 \in Partial /\ -2 \notin Foreign
      BY DEF Partial, Foreign
    <2>3. QED  BY <2>1, <2>2
  <1>4. ASSUME NEW c \in {Absent} \cup Whole, NEW r \in Runs
        PROVE  Held(c) \cup {r} \in Whole /\ Held(c) \cup {r} # Absent
    <2>1. Held(c) \in Whole
      BY DEF Held, Whole
    <2>2. Held(c) \cup {r} \in Whole
      BY <2>1 DEF Whole
    <2>3. QED  BY <2>2, <1>2
  <1>5. QED  BY <1>2, <1>3, <1>4

LEMMA InitInv == Init => Inv
  <1> SUFFICES ASSUME Init PROVE Inv
    OBVIOUS
  <1>1. TypeOK
    <2>1. {0} \in Whole
      BY RunAssumption DEF Whole, Runs
    <2>2. 0 \in Runs /\ 0 \in 0..MaxCrashes
      BY RunAssumption DEF Runs
    <2>3. QED  BY <2>1, <2>2 DEF Init, TypeOK, Pcs, Callers, Sides
  <1>2. Owned
    BY ContentFacts DEF Init, Owned
  <1>3. Progress /\ Sourced
    BY DEF Init, Progress, Sourced, Transferring, Rec, Mid, Clearing
  <1>4. QED  BY <1>1, <1>2, <1>3 DEF Inv

LEMMA NextInv == Inv /\ [Next]_vars => Inv'
  <1> SUFFICES ASSUME Inv, [Next]_vars PROVE Inv'
    OBVIOUS
  <1> USE DirFacts, ContentFacts DEF Inv
  <1>1. CASE Start
    <2> USE <1>1 DEF Start, files, worker, browsers
    <2>1. TypeOK'
      BY RunAssumption DEF TypeOK, Pcs, Callers, Sides, Clearing, Runs
    <2>2. Owned'
      BY DEF TypeOK, Owned, Progress, Clearing
    <2>3. Progress'
      BY DEF TypeOK, Owned, Progress, Sourced, Clearing, Mid, Rec
    <2>4. Sourced'
      BY DEF TypeOK, Sourced, Transferring, Progress, Clearing, Mid, Rec
    <2>5. QED  BY <2>1, <2>2, <2>3, <2>4
  <1>2. CASE Crash
    <2> USE <1>2 DEF Crash, Reset, files, worker, browsers
    <2>1. TypeOK'
      BY RunAssumption DEF TypeOK, Pcs, Callers, Sides, Clearing, Runs
    <2>2. Owned'
      BY DEF TypeOK, Owned, Progress, Clearing
    <2>3. Progress'
      BY DEF TypeOK, Owned, Progress, Sourced, Clearing, Mid, Rec
    <2>4. Sourced'
      BY DEF TypeOK, Sourced, Transferring, Progress, Clearing, Mid, Rec
    <2>5. QED  BY <2>1, <2>2, <2>3, <2>4
  <1>3. ASSUME NEW p \in Profiles, Browse(p) PROVE Inv'
    <2> USE <1>3 DEF Browse, files, worker, browsers
    <2>1. TypeOK'
      BY RunAssumption DEF TypeOK, Pcs, Callers, Sides, Clearing, Runs
    <2>2. Owned'
      <3>1. run + 1 \in Runs
        BY RunAssumption DEF TypeOK, Runs
      <3>2. place'[Own(p)] # Absent
        BY <3>1 DEF TypeOK
      <3>3. QED  BY <3>2 DEF TypeOK, Owned
    <2>3. Progress'
      BY DEF TypeOK, Owned, Progress, Sourced, Clearing, Mid, Rec
    <2>4. Sourced'
      BY DEF TypeOK, Sourced, Transferring, Progress, Clearing, Mid, Rec
    <2>5. QED  BY <2>1, <2>2, <2>3, <2>4
  <1>4. ASSUME NEW p \in Profiles, Quit(p) PROVE Inv'
    <2> USE <1>4 DEF Quit, files, worker, browsers
    <2>1. TypeOK'
      BY RunAssumption DEF TypeOK, Pcs, Callers, Sides, Clearing, Runs
    <2>2. Owned'
      BY DEF TypeOK, Owned, Progress, Clearing
    <2>3. Progress'
      BY DEF TypeOK, Owned, Progress, Sourced, Clearing, Mid, Rec
    <2>4. Sourced'
      BY DEF TypeOK, Sourced, Transferring, Progress, Clearing, Mid, Rec
    <2>5. QED  BY <2>1, <2>2, <2>3, <2>4
  <1>5. ASSUME NEW to \in Sides, Transfer(to) PROVE Inv'
    <2> USE <1>5 DEF Transfer, files, worker, browsers
    <2>1. TypeOK'
      BY RunAssumption DEF TypeOK, Pcs, Callers, Sides, Clearing, Runs
    <2>2. Owned'
      BY DEF TypeOK, Owned, Progress, Clearing
    <2>3. Progress'
      BY DEF TypeOK, Owned, Progress, Sourced, Clearing, Mid, Rec
    <2>4. Sourced'
      BY DEF TypeOK, Sourced, Transferring, Progress, Clearing, Mid, Rec
    <2>5. QED  BY <2>1, <2>2, <2>3, <2>4
  <1>6. ASSUME NEW p \in Profiles, RecoverNext(p) PROVE Inv'
    <2> USE <1>6 DEF RecoverNext, Recover, files, worker, browsers
    <2>1. TypeOK'
      BY RunAssumption DEF TypeOK, Pcs, Callers, Sides, Clearing, Runs
    <2>2. Owned'
      BY DEF TypeOK, Owned, Progress, Clearing
    <2>3. Progress'
      BY DEF TypeOK, Owned, Progress, Sourced, Clearing, Mid, Rec
    <2>4. Sourced'
      BY DEF TypeOK, Sourced, Transferring, Progress, Clearing, Mid, Rec
    <2>5. QED  BY <2>1, <2>2, <2>3, <2>4
  <1>7. CASE WindowOpens
    <2> USE <1>7 DEF WindowOpens, Returns, Reset, files, worker, browsers
    <2>1. TypeOK'
      BY RunAssumption DEF TypeOK, Pcs, Callers, Sides, Clearing, Runs
    <2>2. Owned'
      BY DEF TypeOK, Owned, Progress, Clearing
    <2>3. Progress'
      BY DEF TypeOK, Owned, Progress, Sourced, Clearing, Mid, Rec
    <2>4. Sourced'
      BY DEF TypeOK, Sourced, Transferring, Progress, Clearing, Mid, Rec
    <2>5. QED  BY <2>1, <2>2, <2>3, <2>4
  <1>8. CASE NothingClaimed
    <2> USE <1>8 DEF NothingClaimed, Unclaimed, Leftovers, Recovered, Refuse, Goto, Returns, Reset, files, worker, browsers
    <2>1. TypeOK'
      BY RunAssumption DEF TypeOK, Pcs, Callers, Sides, Clearing, Runs
    <2>2. Owned'
      BY DEF TypeOK, Owned, Progress, Clearing
    <2>3. Progress'
      BY DEF TypeOK, Owned, Progress, Sourced, Clearing, Mid, Rec
    <2>4. Sourced'
      BY DEF TypeOK, Sourced, Transferring, Progress, Clearing, Mid, Rec
    <2>5. QED  BY <2>1, <2>2, <2>3, <2>4
  <1>9. CASE PutBack
    <2> USE <1>9 DEF PutBack, Unclaimed, PutBackDue, Goto, files, worker, browsers
    <2>1. TypeOK'
      <3>1. displaced[dir] \in Whole
        BY DEF TypeOK, Owned
      <3>2. QED  BY <3>1 DEF TypeOK, Pcs, Clearing
    <2>2. Owned'
      BY DEF TypeOK, Owned, Progress, Clearing
    <2>3. Progress'
      BY DEF TypeOK, Owned, Progress, Sourced, Clearing, Mid, Rec
    <2>4. Sourced'
      BY DEF TypeOK, Sourced, Transferring, Progress, Clearing, Mid, Rec
    <2>5. QED  BY <2>1, <2>2, <2>3, <2>4
  <1>10. CASE CannotPutBack
    <2> USE <1>10 DEF CannotPutBack, Unclaimed, PutBackDue, Refuse, Goto, Returns, Reset, files, worker, browsers
    <2>1. TypeOK'
      BY RunAssumption DEF TypeOK, Pcs, Callers, Sides, Clearing, Runs
    <2>2. Owned'
      BY DEF TypeOK, Owned, Progress, Clearing
    <2>3. Progress'
      BY DEF TypeOK, Owned, Progress, Sourced, Clearing, Mid, Rec
    <2>4. Sourced'
      BY DEF TypeOK, Sourced, Transferring, Progress, Clearing, Mid, Rec
    <2>5. QED  BY <2>1, <2>2, <2>3, <2>4
  <1>11. CASE NothingToPutBack
    <2> USE <1>11 DEF NothingToPutBack, Unclaimed, PutBackDue, Goto, files, worker, browsers
    <2>1. TypeOK'
      BY RunAssumption DEF TypeOK, Pcs, Callers, Sides, Clearing, Runs
    <2>2. Owned'
      BY DEF TypeOK, Owned, Progress, Clearing
    <2>3. Progress'
      BY DEF TypeOK, Owned, Progress, Sourced, Clearing, Mid, Rec
    <2>4. Sourced'
      BY DEF TypeOK, Sourced, Transferring, Progress, Clearing, Mid, Rec
    <2>5. QED  BY <2>1, <2>2, <2>3, <2>4
  <1>12. CASE ClearDisplaced
    <2> USE <1>12 DEF ClearDisplaced, Smaller, Goto, files, worker, browsers
    <2>1. TypeOK'
      BY RunAssumption DEF TypeOK, Pcs, Callers, Sides, Clearing, Runs
    <2>2. Owned'
      BY DEF TypeOK, Owned, Progress, Clearing
    <2>3. Progress'
      BY DEF TypeOK, Owned, Progress, Sourced, Clearing, Mid, Rec
    <2>4. Sourced'
      BY DEF TypeOK, Sourced, Transferring, Progress, Clearing, Mid, Rec
    <2>5. QED  BY <2>1, <2>2, <2>3, <2>4
  <1>13. CASE ClearStaged
    <2> USE <1>13 DEF ClearStaged, Smaller, Goto, files, worker, browsers
    <2>1. TypeOK'
      BY RunAssumption DEF TypeOK, Pcs, Callers, Sides, Clearing, Runs
    <2>2. Owned'
      BY DEF TypeOK, Owned, Progress, Clearing
    <2>3. Progress'
      BY DEF TypeOK, Owned, Progress, Sourced, Clearing, Mid, Rec
    <2>4. Sourced'
      BY DEF TypeOK, Sourced, Transferring, Progress, Clearing, Mid, Rec
    <2>5. QED  BY <2>1, <2>2, <2>3, <2>4
  <1>14. CASE ClearOwner
    <2> USE <1>14 DEF ClearOwner, Recovered, Goto, Returns, Reset, files, worker, browsers
    <2>1. TypeOK'
      BY RunAssumption DEF TypeOK, Pcs, Callers, Sides, Clearing, Runs
    <2>2. Owned'
      BY DEF TypeOK, Owned, Progress, Clearing
    <2>3. Progress'
      BY DEF TypeOK, Owned, Progress, Sourced, Clearing, Mid, Rec
    <2>4. Sourced'
      BY DEF TypeOK, Sourced, Transferring, Progress, Clearing, Mid, Rec
    <2>5. QED  BY <2>1, <2>2, <2>3, <2>4
  <1>15. CASE ClearFails
    <2> USE <1>15 DEF ClearFails, Refuse, Goto, Returns, Reset, files, worker, browsers
    <2>1. TypeOK'
      BY RunAssumption DEF TypeOK, Pcs, Callers, Sides, Clearing, Runs
    <2>2. Owned'
      BY DEF TypeOK, Owned, Progress, Clearing
    <2>3. Progress'
      BY DEF TypeOK, Owned, Progress, Sourced, Clearing, Mid, Rec
    <2>4. Sourced'
      BY DEF TypeOK, Sourced, Transferring, Progress, Clearing, Mid, Rec
    <2>5. QED  BY <2>1, <2>2, <2>3, <2>4
  <1>16. CASE TransferEnds
    <2> USE <1>16 DEF TransferEnds, Returns, Reset, files, worker, browsers
    <2>1. TypeOK'
      BY RunAssumption DEF TypeOK, Pcs, Callers, Sides, Clearing, Runs
    <2>2. Owned'
      BY DEF TypeOK, Owned, Progress, Clearing
    <2>3. Progress'
      BY DEF TypeOK, Owned, Progress, Sourced, Clearing, Mid, Rec
    <2>4. Sourced'
      BY DEF TypeOK, Sourced, Transferring, Progress, Clearing, Mid, Rec
    <2>5. QED  BY <2>1, <2>2, <2>3, <2>4
  <1>17. CASE Claim
    <2> USE <1>17 DEF Claim, Goto, files, worker, browsers
    <2>1. TypeOK'
      BY RunAssumption DEF TypeOK, Pcs, Callers, Sides, Clearing, Runs
    <2>2. Owned'
      BY DEF TypeOK, Owned, Progress, Clearing
    <2>3. Progress'
      BY DEF TypeOK, Owned, Progress, Sourced, Clearing, Mid, Rec
    <2>4. Sourced'
      BY DEF TypeOK, Sourced, Transferring, Progress, Clearing, Mid, Rec
    <2>5. QED  BY <2>1, <2>2, <2>3, <2>4
  <1>18. CASE Record
    <2> USE <1>18 DEF Record, Goto, files, worker, browsers
    <2>1. TypeOK'
      BY RunAssumption DEF TypeOK, Pcs, Callers, Sides, Clearing, Runs
    <2>2. Owned'
      BY DEF TypeOK, Owned, Progress, Clearing
    <2>3. Progress'
      BY DEF TypeOK, Owned, Progress, Sourced, Clearing, Mid, Rec
    <2>4. Sourced'
      BY DEF TypeOK, Sourced, Transferring, Progress, Clearing, Mid, Rec
    <2>5. QED  BY <2>1, <2>2, <2>3, <2>4
  <1>19. CASE ClaimFails
    <2> USE <1>19 DEF ClaimFails, Returns, Reset, files, worker, browsers
    <2>1. TypeOK'
      BY RunAssumption DEF TypeOK, Pcs, Callers, Sides, Clearing, Runs
    <2>2. Owned'
      BY DEF TypeOK, Owned, Progress, Clearing
    <2>3. Progress'
      BY DEF TypeOK, Owned, Progress, Sourced, Clearing, Mid, Rec
    <2>4. Sourced'
      BY DEF TypeOK, Sourced, Transferring, Progress, Clearing, Mid, Rec
    <2>5. QED  BY <2>1, <2>2, <2>3, <2>4
  <1>20. CASE Fill
    <2> USE <1>20 DEF Fill, Goto, files, worker, browsers
    <2>1. TypeOK'
      BY RunAssumption DEF TypeOK, Pcs, Callers, Sides, Clearing, Runs
    <2>2. Owned'
      BY DEF TypeOK, Owned, Progress, Clearing
    <2>3. Progress'
      BY DEF TypeOK, Owned, Progress, Sourced, Clearing, Mid, Rec
    <2>4. Sourced'
      BY DEF TypeOK, Sourced, Transferring, Progress, Clearing, Mid, Rec
    <2>5. QED  BY <2>1, <2>2, <2>3, <2>4
  <1>21. CASE Copied
    <2> USE <1>21 DEF Copied, Goto, files, worker, browsers
    <2>1. TypeOK'
      BY RunAssumption DEF TypeOK, Pcs, Callers, Sides, Clearing, Runs
    <2>2. Owned'
      BY DEF TypeOK, Owned, Progress, Clearing
    <2>3. Progress'
      BY DEF TypeOK, Owned, Progress, Sourced, Clearing, Mid, Rec
    <2>4. Sourced'
      BY DEF TypeOK, Sourced, Transferring, Progress, Clearing, Mid, Rec
    <2>5. QED  BY <2>1, <2>2, <2>3, <2>4
  <1>22. CASE CopyFails
    <2> USE <1>22 DEF CopyFails, Recover, files, worker, browsers
    <2>1. TypeOK'
      BY RunAssumption DEF TypeOK, Pcs, Callers, Sides, Clearing, Runs
    <2>2. Owned'
      BY DEF TypeOK, Owned, Progress, Clearing
    <2>3. Progress'
      BY DEF TypeOK, Owned, Progress, Sourced, Clearing, Mid, Rec
    <2>4. Sourced'
      BY DEF TypeOK, Sourced, Transferring, Progress, Clearing, Mid, Rec
    <2>5. QED  BY <2>1, <2>2, <2>3, <2>4
  <1>23. CASE CommitNew
    <2> USE <1>23 DEF CommitNew, PutInPlace, Recover, files, worker, browsers
    <2>1. TypeOK'
      <3>1. staged[dir] \in Whole
        BY DEF TypeOK, Progress, Sourced, Mid
      <3>2. QED  BY <3>1 DEF TypeOK, Pcs, Callers
    <2>2. Owned'
      BY DEF TypeOK, Owned, Progress, Clearing
    <2>3. Progress'
      BY DEF TypeOK, Owned, Progress, Sourced, Clearing, Mid, Rec
    <2>4. Sourced'
      BY DEF TypeOK, Sourced, Transferring, Progress, Clearing, Mid, Rec
    <2>5. QED  BY <2>1, <2>2, <2>3, <2>4
  <1>24. CASE CommitAside
    <2> USE <1>24 DEF CommitAside, Displace, Goto, files, worker, browsers
    <2>1. TypeOK'
      BY RunAssumption DEF TypeOK, Pcs, Callers, Sides, Clearing, Runs
    <2>2. Owned'
      BY DEF TypeOK, Owned, Progress, Clearing
    <2>3. Progress'
      BY DEF TypeOK, Owned, Progress, Sourced, Clearing, Mid, Rec
    <2>4. Sourced'
      BY DEF TypeOK, Sourced, Transferring, Progress, Clearing, Mid, Rec
    <2>5. QED  BY <2>1, <2>2, <2>3, <2>4
  <1>25. CASE CommitSwap
    <2> USE <1>25 DEF CommitSwap, PutInPlace, Recover, files, worker, browsers
    <2>1. TypeOK'
      <3>1. staged[dir] \in Whole
        BY DEF TypeOK, Progress, Sourced, Mid
      <3>2. QED  BY <3>1 DEF TypeOK, Pcs, Callers
    <2>2. Owned'
      BY DEF TypeOK, Owned, Progress, Clearing
    <2>3. Progress'
      BY DEF TypeOK, Owned, Progress, Sourced, Clearing, Mid, Rec
    <2>4. Sourced'
      BY DEF TypeOK, Sourced, Transferring, Progress, Clearing, Mid, Rec
    <2>5. QED  BY <2>1, <2>2, <2>3, <2>4
  <1>26. CASE CommitFails
    <2> USE <1>26 DEF CommitFails, Returns, Reset, files, worker, browsers
    <2>1. TypeOK'
      BY RunAssumption DEF TypeOK, Pcs, Callers, Sides, Clearing, Runs
    <2>2. Owned'
      BY DEF TypeOK, Owned, Progress, Clearing
    <2>3. Progress'
      BY DEF TypeOK, Owned, Progress, Sourced, Clearing, Mid, Rec
    <2>4. Sourced'
      BY DEF TypeOK, Sourced, Transferring, Progress, Clearing, Mid, Rec
    <2>5. QED  BY <2>1, <2>2, <2>3, <2>4
  <1>27. CASE SwapFails
    <2> USE <1>27 DEF SwapFails, Restored, Returns, Reset, files, worker, browsers
    <2>1. TypeOK'
      BY DEF TypeOK, Pcs, Callers, Sides, Progress
    <2>2. Owned'
      BY DEF TypeOK, Owned, Progress, Clearing
    <2>3. Progress'
      BY DEF TypeOK, Owned, Progress, Sourced, Clearing, Mid, Rec
    <2>4. Sourced'
      BY DEF TypeOK, Sourced, Transferring, Progress, Clearing, Mid, Rec
    <2>5. QED  BY <2>1, <2>2, <2>3, <2>4
  <1>28. ASSUME NEW p \in Profiles, NextCopy(p) PROVE Inv'
    <2> USE <1>28 DEF NextCopy, Taken, Recover, files, worker, browsers
    <2>1. TypeOK'
      BY RunAssumption DEF TypeOK, Pcs, Callers, Sides, Clearing, Runs
    <2>2. Owned'
      BY DEF TypeOK, Owned, Progress, Clearing
    <2>3. Progress'
      BY DEF TypeOK, Owned, Progress, Sourced, Clearing, Mid, Rec
    <2>4. Sourced'
      BY DEF TypeOK, Sourced, Transferring, Progress, Clearing, Mid, Rec
    <2>5. QED  BY <2>1, <2>2, <2>3, <2>4
  <1>29. CASE UNCHANGED vars
    BY <1>29 DEF vars, files, worker, browsers, TypeOK, Owned, Progress, Sourced, Transferring
  <1>30. QED
    BY <1>1, <1>2, <1>3, <1>4, <1>5, <1>6, <1>7, <1>8, <1>9, <1>10, <1>11, <1>12, <1>13,
       <1>14, <1>15, <1>16, <1>17, <1>18, <1>19, <1>20, <1>21, <1>22, <1>23, <1>24, <1>25,
       <1>26, <1>27, <1>28, <1>29 DEF Next, Work, Recovery, Copying

\* Every reachable state is well typed: in particular no directory's own path
\* ever names a tree that is not whole (transfer, commit).
THEOREM TransferTypes == Spec => []TypeOK
  <1>1. Inv => TypeOK
    BY DEF Inv
  <1>2. QED
    BY InitInv, NextInv, <1>1, PTL DEF Spec

-----------------------------------------------------------------------------
(* Siblings that no record claims.                                          *)

LEMMA StepKeepsForeign ==
    Inv /\ [Next]_vars => KeepsForeign
  <1> SUFFICES ASSUME Inv, [Next]_vars, NEW d \in Dirs
               PROVE  /\ displaced[d] = Foreign => displaced'[d] = Foreign
                      /\ staged[d] = Foreign => staged'[d] = Foreign
    BY DEF KeepsForeign
  <1> USE DirFacts, ContentFacts DEF Inv, TypeOK
  <1>1. CASE PutBack
    BY <1>1 DEF PutBack, Owned, Unclaimed, Goto
  <1>2. CASE ClearDisplaced
    BY <1>2 DEF ClearDisplaced, Owned, Goto, Progress, Clearing
  <1>3. CASE ClearStaged
    BY <1>3 DEF ClearStaged, Owned, Goto, Progress, Clearing
  <1>4. CASE Fill
    BY <1>4 DEF Fill, Owned, Progress
  <1>5. CASE Copied
    BY <1>5 DEF Copied, Owned, Progress
  <1>6. CASE CommitNew
    BY <1>6 DEF CommitNew, Owned, PutInPlace, Progress
  <1>7. CASE CommitAside
    BY <1>7 DEF CommitAside, Owned, Displace, Progress
  <1>8. CASE CommitSwap
    BY <1>8 DEF CommitSwap, Owned, PutInPlace, Progress
  <1>9. CASE SwapFails
    BY <1>9 DEF SwapFails, Owned, Restored, Progress
  <1>10. CASE UNCHANGED <<displaced, staged>>
    BY <1>10
  <1>11. Start => UNCHANGED <<displaced, staged>>
    BY DEF Start, files
  <1>12. Crash => UNCHANGED <<displaced, staged>>
    BY DEF Crash, files
  <1>13. ASSUME NEW p \in Profiles, Browse(p) PROVE UNCHANGED <<displaced, staged>>
    BY <1>13 DEF Browse, files
  <1>14. ASSUME NEW p \in Profiles, Quit(p) PROVE UNCHANGED <<displaced, staged>>
    BY <1>14 DEF Quit, files
  <1>15. ASSUME NEW to \in Sides, Transfer(to) PROVE UNCHANGED <<displaced, staged>>
    BY <1>15 DEF Transfer, files
  <1>16. ASSUME NEW p \in Profiles, RecoverNext(p) PROVE UNCHANGED <<displaced, staged>>
    BY <1>16 DEF RecoverNext, files
  <1>17. WindowOpens => UNCHANGED <<displaced, staged>>
    BY DEF WindowOpens, files
  <1>18. NothingClaimed => UNCHANGED <<displaced, staged>>
    BY DEF NothingClaimed, files
  <1>19. CannotPutBack => UNCHANGED <<displaced, staged>>
    BY DEF CannotPutBack, files
  <1>20. NothingToPutBack => UNCHANGED <<displaced, staged>>
    BY DEF NothingToPutBack, files
  <1>21. ClearOwner => UNCHANGED <<displaced, staged>>
    BY DEF ClearOwner, files
  <1>22. ClearFails => UNCHANGED <<displaced, staged>>
    BY DEF ClearFails, files
  <1>23. TransferEnds => UNCHANGED <<displaced, staged>>
    BY DEF TransferEnds, files
  <1>24. Claim => UNCHANGED <<displaced, staged>>
    BY DEF Claim, files
  <1>25. Record => UNCHANGED <<displaced, staged>>
    BY DEF Record, files
  <1>26. ClaimFails => UNCHANGED <<displaced, staged>>
    BY DEF ClaimFails, files
  <1>27. CopyFails => UNCHANGED <<displaced, staged>>
    BY DEF CopyFails, files
  <1>28. CommitFails => UNCHANGED <<displaced, staged>>
    BY DEF CommitFails, files
  <1>29. ASSUME NEW p \in Profiles, NextCopy(p) PROVE UNCHANGED <<displaced, staged>>
    BY <1>29 DEF NextCopy, files
  <1>30. QED
    BY <1>1, <1>2, <1>3, <1>4, <1>5, <1>6, <1>7, <1>8, <1>9, <1>10, <1>11, <1>12, <1>13,
       <1>14, <1>15, <1>16, <1>17, <1>18, <1>19, <1>20, <1>21, <1>22, <1>23, <1>24, <1>25,
       <1>26, <1>27, <1>28, <1>29
    DEF Next, Work, Recovery, Copying, vars, files

\* Nothing but what a valid record of ours claims is renamed or removed
\* (recover, remove_any).
THEOREM ForeignStays == Spec => ForeignIsKept
  <1>1. Inv /\ [Next]_vars => [KeepsForeign]_vars
    BY StepKeepsForeign
  <1>2. QED
    BY InitInv, NextInv, <1>1, PTL DEF Spec, ForeignIsKept

-----------------------------------------------------------------------------
(* Data is in place, and changes atomically.                                *)

InPlace(d) == place[d] # Absent \/ owner[d] # "valid" \/ displaced[d] = Absent

\* A profile's data can be aside only after a kill, until its recovery, and
\* between the two renames.
Excused(p) ==
    \/ pc = "off"
    \/ Starting /\ (p \in todo \/ (pc = "check" /\ Own(p) = dir))
    \/ pc = "swap" /\ Own(p) = dir
Healed == \A p \in Profiles : InPlace(Own(p)) \/ Excused(p)

LEMMA StepHeals ==
  ASSUME "own" \notin PutBackFails, Inv, Inv', Healed, [Next]_vars PROVE Healed'
  <1> SUFFICES ASSUME NEW q \in Profiles
               PROVE  InPlace(Own(q))' \/ Excused(q)'
    BY DEF Healed, Own
  <1> USE DirFacts, ContentFacts DEF Inv, TypeOK, InPlace, Healed, Excused, Starting, Rec, Clearing
  <1>1. CASE Start
    BY <1>1 DEF Start, files, worker, browsers, Owned, Progress
  <1>2. CASE Crash
    BY <1>2 DEF Crash, Reset, files, worker, browsers, Owned, Progress
  <1>3. ASSUME NEW p \in Profiles, Browse(p) PROVE InPlace(Own(q))' \/ Excused(q)'
    BY <1>3 DEF Browse, files, worker, browsers, Owned, Progress
  <1>4. ASSUME NEW p \in Profiles, Quit(p) PROVE InPlace(Own(q))' \/ Excused(q)'
    BY <1>4 DEF Quit, files, worker, browsers, Owned, Progress
  <1>5. ASSUME NEW to \in Sides, Transfer(to) PROVE InPlace(Own(q))' \/ Excused(q)'
    BY <1>5 DEF Transfer, files, worker, browsers, Owned, Progress
  <1>6. ASSUME NEW p \in Profiles, RecoverNext(p) PROVE InPlace(Own(q))' \/ Excused(q)'
    BY <1>6 DEF RecoverNext, Recover, files, worker, browsers, Owned, Progress
  <1>7. CASE WindowOpens
    BY <1>7 DEF WindowOpens, Returns, Reset, files, worker, browsers, Owned, Progress
  <1>8. CASE NothingClaimed
    BY <1>8 DEF NothingClaimed, Unclaimed, Leftovers, Recovered, Refuse, Goto, Returns,
       Reset, files, worker, browsers, Owned, Progress
  <1>9. CASE PutBack
    BY <1>9 DEF PutBack, Unclaimed, PutBackDue, Goto, files, worker, browsers, Owned, Progress
  <1>10. CASE CannotPutBack
    <2>1. dir # Own(q) /\ UNCHANGED files
      BY <1>10 DEF CannotPutBack, Own
    <2>2. CASE caller = "startup"
      BY <1>10, <2>1, <2>2 DEF CannotPutBack, Refuse, Goto, files, Owned, Progress
    <2>3. CASE caller # "startup"
      BY <1>10, <2>1, <2>3 DEF CannotPutBack, Refuse, Returns, files, Owned, Progress
    <2>4. QED  BY <2>2, <2>3
  <1>11. CASE NothingToPutBack
    BY <1>11 DEF NothingToPutBack, Unclaimed, PutBackDue, Goto, files, worker, browsers,
       Owned, Progress
  <1>12. CASE ClearDisplaced
    BY <1>12 DEF ClearDisplaced, Smaller, Goto, files, worker, browsers, Owned, Progress
  <1>13. CASE ClearStaged
    BY <1>13 DEF ClearStaged, Smaller, Goto, files, worker, browsers, Owned, Progress
  <1>14. CASE ClearOwner
    BY <1>14 DEF ClearOwner, Recovered, Goto, Returns, Reset, files, worker, browsers,
       Owned, Progress
  <1>15. CASE ClearFails
    BY <1>15 DEF ClearFails, Refuse, Goto, Returns, Reset, files, worker, browsers, Owned,
       Progress
  <1>16. CASE TransferEnds
    BY <1>16 DEF TransferEnds, Returns, Reset, files, worker, browsers, Owned, Progress
  <1>17. CASE Claim
    BY <1>17 DEF Claim, Goto, files, worker, browsers, Owned, Progress
  <1>18. CASE Record
    BY <1>18 DEF Record, Goto, files, worker, browsers, Owned, Progress
  <1>19. CASE ClaimFails
    BY <1>19 DEF ClaimFails, Returns, Reset, files, worker, browsers, Owned, Progress
  <1>20. CASE Fill
    BY <1>20 DEF Fill, Goto, files, worker, browsers, Owned, Progress
  <1>21. CASE Copied
    BY <1>21 DEF Copied, Goto, files, worker, browsers, Owned, Progress
  <1>22. CASE CopyFails
    BY <1>22 DEF CopyFails, Recover, files, worker, browsers, Owned, Progress
  <1>23. CASE CommitNew
    BY <1>23 DEF CommitNew, PutInPlace, Recover, files, worker, browsers, Owned, Progress
  <1>24. CASE CommitAside
    BY <1>24 DEF CommitAside, Displace, Goto, files, worker, browsers, Owned, Progress
  <1>25. CASE CommitSwap
    BY <1>25 DEF CommitSwap, PutInPlace, Recover, files, worker, browsers, Owned, Progress,
       Sourced, Mid
  <1>26. CASE CommitFails
    BY <1>26 DEF CommitFails, Returns, Reset, files, worker, browsers, Owned, Progress
  <1>27. CASE SwapFails
    <2>1. CASE dir = Own(q)
      <3>1. displaced[dir] \in Whole /\ dir \in Dirs
        BY <1>27 DEF SwapFails, Progress
      <3>2. place' = [place EXCEPT ![dir] = displaced[dir]]
        BY <1>27, <2>1 DEF SwapFails, Restored, Own
      <3>3. QED  BY <2>1, <3>1, <3>2
    <2>2. CASE dir # Own(q)
      BY <1>27, <2>2 DEF SwapFails, Restored, Returns, Progress
    <2>3. QED  BY <2>1, <2>2
  <1>28. ASSUME NEW p \in Profiles, NextCopy(p) PROVE InPlace(Own(q))' \/ Excused(q)'
    BY <1>28 DEF NextCopy, Taken, Recover, files, worker, browsers, Owned, Progress
  <1>29. CASE UNCHANGED vars
    BY <1>29 DEF vars, files, worker, browsers
  <1>30. QED
    BY <1>1, <1>2, <1>3, <1>4, <1>5, <1>6, <1>7, <1>8, <1>9, <1>10, <1>11, <1>12, <1>13,
       <1>14, <1>15, <1>16, <1>17, <1>18, <1>19, <1>20, <1>21, <1>22, <1>23, <1>24, <1>25,
       <1>26, <1>27, <1>28, <1>29 DEF Next, Work, Recovery, Copying

\* Data in its place is what the directory's own path holds.
LEMMA PlaceIsData ==
    TypeOK => \A p \in Profiles : InPlace(Own(p)) => place[Own(p)] = Data[Own(p)]
  BY DirFacts DEF TypeOK, InPlace, Data

\* As long as a profile's own directory can be renamed back, no browser is started
\* on a profile whose data is not where it looks (recover_user_data_dirs, commit).
THEOREM DataStaysInPlace ==
  ASSUME "own" \notin PutBackFails PROVE Spec => []DataIsInPlace
  <1>1. Init => Healed
    BY DEF Init, Healed, Excused
  <1>2. Inv /\ Inv' /\ Healed /\ [Next]_vars => Healed'
    BY StepHeals
  <1>3. Inv /\ Healed => DataIsInPlace
    BY PlaceIsData DEF Inv, Healed, Excused, DataIsInPlace, Starting, Rec, Clearing
  <1>4. QED
    BY InitInv, NextInv, <1>1, <1>2, <1>3, PTL DEF Spec

-----------------------------------------------------------------------------
(* Refinement.                                                              *)

\* A browser's write is one of its directory's data, a rename into place copies
\* the counterpart's, and no other step changes what a directory holds.
LEMMA StepIsAtomic ==
  ASSUME "own" \notin PutBackFails, Inv, Healed, [Next]_vars PROVE [Atomic!Next]_Data
  <1> USE DirFacts, ContentFacts DEF Inv, TypeOK, Owned, Progress
  <1>1. ASSUME NEW d \in Dirs, place' = [place EXCEPT ![d] = place[Counterpart(d)]],
               place[Counterpart(d)] # Absent, owner' = owner, displaced' = displaced
        PROVE  Atomic!Replace(d)
    <2>1. Data[Counterpart(d)] = place[Counterpart(d)] /\ Data'[d] = place[Counterpart(d)]
      BY <1>1 DEF Data
    <2>2. ASSUME NEW e \in Dirs, e # d PROVE Data'[e] = Data[e]
      BY <1>1, <2>2 DEF Data
    <2>3. Data' = [Data EXCEPT ![d] = Data[Counterpart(d)]]
      BY <2>1, <2>2 DEF Data
    <2>4. QED
      BY <1>1, <2>1, <2>3 DEF Atomic!Replace
  <1>2. CASE UNCHANGED files
    BY <1>2 DEF files, Data
  <1>3. ASSUME NEW p \in Profiles, Browse(p) PROVE Atomic!Browse(Own(p))
    <2> DEFINE d == Own(p)
    <2>1. /\ owner' = owner /\ displaced' = displaced /\ pc = "idle"
          /\ place' = [place EXCEPT ![d] = Held(place[d]) \cup {run + 1}]
      BY <1>3 DEF Browse
    <2>2. run + 1 \in Runs
      BY <1>3, RunAssumption DEF Browse, Runs
    <2>3. Data[d] = place[d]
      BY <2>1, PlaceIsData DEF Healed, Excused, Starting, Rec, Clearing
    <2>4. Data' = [Data EXCEPT ![d] = Held(Data[d]) \cup {run + 1}]
      <3>1. Data'[d] = Held(Data[d]) \cup {run + 1}
        BY <2>1, <2>2, <2>3 DEF Data
      <3>2. ASSUME NEW e \in Dirs, e # d PROVE Data'[e] = Data[e]
        BY <2>1, <3>2 DEF Data
      <3>3. Data = [e \in Dirs |-> Data[e]] /\ Data' = [e \in Dirs |-> Data'[e]]
        BY DEF Data
      <3> DEFINE new == Held(Data[d]) \cup {run + 1}
      <3>4. Data'[d] = new
        BY <3>1
      <3> HIDE DEF new
      <3>5. Data' = [Data EXCEPT ![d] = new]
        BY <3>2, <3>3, <3>4
      <3>6. QED
        BY <3>5 DEF new
    <2>5. QED
      BY <2>2, <2>4 DEF Atomic!Browse, Atomic!Held, Held
  <1>4. CASE PutBack
    BY <1>4 DEF PutBack, PutBackDue, Unclaimed, Data
  <1>5. CASE ClearDisplaced
    BY <1>5 DEF ClearDisplaced, Smaller, Goto, Clearing, Data
  <1>6. CASE ClearStaged
    BY <1>6 DEF ClearStaged, Goto, Data
  <1>7. CASE ClearOwner
    BY <1>7 DEF ClearOwner, Clearing, Data
  <1>8. CASE Claim
    BY <1>8 DEF Claim, Data
  <1>9. CASE Record
    BY <1>9 DEF Record, Data
  <1>10. CASE Fill \/ Copied
    BY <1>10 DEF Fill, Copied, Data
  <1>11. ASSUME CommitNew \/ CommitSwap PROVE \E d \in Dirs : Atomic!Replace(d)
    <2>1. dir \in Dirs /\ place[Counterpart(dir)] # Absent
          /\ staged[dir] = place[Counterpart(dir)] /\ owner' = owner /\ displaced' = displaced
          /\ place' = [place EXCEPT ![dir] = staged[dir]]
      BY <1>11 DEF CommitNew, CommitSwap, PutInPlace, Sourced, Mid
    <2>2. QED
      BY <1>1, <2>1
  <1>12. CASE CommitAside
    BY <1>12 DEF CommitAside, Displace, Goto, Data
  <1>13. CASE SwapFails
    BY <1>13 DEF SwapFails, Restored, Data
  <1>14. Start => UNCHANGED files
    BY DEF Start
  <1>15. Crash => UNCHANGED files
    BY DEF Crash
  <1>16. WindowOpens => UNCHANGED files
    BY DEF WindowOpens
  <1>17. NothingClaimed => UNCHANGED files
    BY DEF NothingClaimed
  <1>18. CannotPutBack => UNCHANGED files
    BY DEF CannotPutBack
  <1>19. NothingToPutBack => UNCHANGED files
    BY DEF NothingToPutBack
  <1>20. ClearFails => UNCHANGED files
    BY DEF ClearFails
  <1>21. TransferEnds => UNCHANGED files
    BY DEF TransferEnds
  <1>22. ClaimFails => UNCHANGED files
    BY DEF ClaimFails
  <1>23. CopyFails => UNCHANGED files
    BY DEF CopyFails
  <1>24. CommitFails => UNCHANGED files
    BY DEF CommitFails
  <1>25. ASSUME NEW p \in Profiles, Quit(p) PROVE UNCHANGED files
    BY <1>25 DEF Quit
  <1>26. ASSUME NEW p \in Profiles, RecoverNext(p) PROVE UNCHANGED files
    BY <1>26 DEF RecoverNext
  <1>27. ASSUME NEW p \in Profiles, NextCopy(p) PROVE UNCHANGED files
    BY <1>27 DEF NextCopy
  <1>28. ASSUME NEW to \in Sides, Transfer(to) PROVE UNCHANGED files
    BY <1>28 DEF Transfer
  <1>29. QED
    BY <1>2, <1>3, <1>4, <1>5, <1>6, <1>7, <1>8, <1>9, <1>10, <1>11, <1>12, <1>13, <1>14,
       <1>15, <1>16, <1>17, <1>18, <1>19, <1>20, <1>21, <1>22, <1>23, <1>24, <1>25, <1>26,
       <1>27, <1>28 DEF Next, Work, Recovery, Copying, vars, Atomic!Next

\* As long as a profile's own directory can be renamed back, a directory changes
\* only by being browsed in or by becoming a whole copy of its counterpart, whatever
\* fails and whenever the program is killed (transfer, commit, recover).
THEOREM TransferIsAtomic ==
  ASSUME "own" \notin PutBackFails PROVE Spec => ReplacesAtomically
  <1>1. Init => Healed
    BY DEF Init, Healed, Excused
  <1>2. Inv /\ Inv' /\ Healed /\ [Next]_vars => Healed'
    BY StepHeals
  <1>3. Init => Atomic!Init
    BY RunAssumption, DirFacts DEF Init, Atomic!Init, Data, Runs
  <1>4. Inv /\ Healed /\ [Next]_vars => [Atomic!Next]_Data
    BY StepIsAtomic
  <1>5. QED
    BY InitInv, NextInv, <1>1, <1>2, <1>3, <1>4, PTL DEF Spec, ReplacesAtomically, Atomic!Spec

-----------------------------------------------------------------------------
(***************************************************************************)
(* The identity a profile claims.                                          *)
(***************************************************************************)

(* What a profile asks, and what becomes of it.                             *)

\* What the page can have reported.
Reported == {"a", "b", "Chrome", "Edge", "x", "y", "4", "8", "on", "read", "default", "other",
             "missing"}

\* The manifest of an installation, the highest of its directories and the banner
\* all name a major, or nothing does.
LEMMA ProbeType ==
    ASSUME NEW l \in Layout
    PROVE  Probe(l) \in Majors \cup {0}
<1>1. l.json \in Majors \cup {0} /\ l.file \in Majors \cup {0} /\ l.banner \in Majors \cup {0}
      /\ l.dirs \subseteq {143, 144, 149}
    BY DEF Layout, Majors
<1>2. ASSUME l.dirs # {}  PROVE Max(l.dirs) \in Majors
    <2>1. \E x \in l.dirs : \A y \in l.dirs : x >= y
        <3>1. CASE 149 \in l.dirs
            BY <1>1, <3>1
        <3>2. CASE 149 \notin l.dirs /\ 144 \in l.dirs
            BY <1>1, <3>2
        <3>3. CASE 149 \notin l.dirs /\ 144 \notin l.dirs
            BY <1>1, <1>2, <3>3
        <3> QED
            BY <3>1, <3>2, <3>3
    <2>2. Max(l.dirs) \in l.dirs
        BY <2>1 DEF Max
    <2> QED
        BY <1>1, <2>2 DEF Majors
<1> QED
    BY <1>1, <1>2 DEF Probe

\* A profile asks for these eleven switches, and for nothing else.
LEMMA AsksAre ==
    ASSUME NEW p \in Fingerprint, NEW a
    PROVE  a \in Asks(p) <=>
              \/ a = <<"seed", p.base>>
              \/ a = <<"platform", p.base>>
              \/ a = <<"locale", p.base>>
              \/ a = <<"languages", p.base>>
              \/ a = <<"brand", p.brand>>
              \/ a = <<"noise", "on">>
              \/ Given(p.brand_version) /\ a = <<"brand version", p.brand_version>>
              \/ Given(p.version) /\ a = <<"version", p.version>>
              \/ p.cpus # "none" /\ a = <<"cpus", p.cpus>>
              \/ p.strict /\ a = <<"webrtc", "on">>
              \/ p.exclusions /\ a = <<"exclusions", "on">>
<1>1. a \in {<<"version", v>> : v \in {w \in {p.version} : Given(w)}}
      <=> Given(p.version) /\ a = <<"version", p.version>>
    OBVIOUS
<1>2. a \in {<<"cpus", c>> : c \in {p.cpus} \ {"none"}}
      <=> p.cpus # "none" /\ a = <<"cpus", p.cpus>>
    OBVIOUS
<1>3. a \in {<<s, "on">> : s \in {x \in {"webrtc", "exclusions"} :
                                   p[IF x = "webrtc" THEN "strict" ELSE x]}}
      <=> (p.strict /\ a = <<"webrtc", "on">>) \/ (p.exclusions /\ a = <<"exclusions", "on">>)
    OBVIOUS
<1>4. a \in {<<"brand version", v>> : v \in {w \in {p.brand_version} : Given(w)}}
      <=> Given(p.brand_version) /\ a = <<"brand version", p.brand_version>>
    OBVIOUS
<1>5. a \in {<<s, p.base>> : s \in {"seed", "platform", "locale", "languages"}}
      <=> \/ a = <<"seed", p.base>> \/ a = <<"platform", p.base>>
          \/ a = <<"locale", p.base>> \/ a = <<"languages", p.base>>
    OBVIOUS
<1> QED
    BY <1>1, <1>2, <1>3, <1>4, <1>5 DEF Asks

\* The value a switch is asked for with, and when it is.
Switches == {"seed", "platform", "locale", "languages", "brand", "brand version", "noise",
             "version", "cpus", "webrtc", "exclusions"}
ValueOf(p, s) ==
    IF s \in {"seed", "platform", "locale", "languages"} THEN p.base
    ELSE IF s \in {"noise", "webrtc", "exclusions"} THEN "on"
    ELSE IF s = "brand version" THEN p.brand_version
    ELSE p[s]
Wanted(p, s) ==
    /\ s \in {"version", "brand version"} => Given(ValueOf(p, s))
    /\ s = "cpus" => p.cpus # "none"
    /\ s = "webrtc" => p.strict
    /\ s = "exclusions" => p.exclusions

LEMMA AskIs ==
    ASSUME NEW p \in Fingerprint, NEW a \in Asks(p)
    PROVE  a[1] \in Switches /\ Wanted(p, a[1]) /\ a = <<a[1], ValueOf(p, a[1])>>
<1> DEFINE Is(s) == s \in Switches /\ Wanted(p, s) /\ a = <<s, ValueOf(p, s)>>
<1>1. CASE a = <<"seed", p.base>>
    <2>1. Is("seed")
        BY <1>1 DEF Switches, Wanted, ValueOf
    <2> QED
        BY <2>1
<1>2. CASE a = <<"platform", p.base>>
    <2>1. Is("platform")
        BY <1>2 DEF Switches, Wanted, ValueOf
    <2> QED
        BY <2>1
<1>3. CASE a = <<"locale", p.base>>
    <2>1. Is("locale")
        BY <1>3 DEF Switches, Wanted, ValueOf
    <2> QED
        BY <2>1
<1>4. CASE a = <<"languages", p.base>>
    <2>1. Is("languages")
        BY <1>4 DEF Switches, Wanted, ValueOf
    <2> QED
        BY <2>1
<1>5. CASE a = <<"brand", p.brand>>
    <2>1. Is("brand")
        BY <1>5 DEF Switches, Wanted, ValueOf
    <2> QED
        BY <2>1
<1>6. CASE a = <<"noise", "on">>
    <2>1. Is("noise")
        BY <1>6 DEF Switches, Wanted, ValueOf
    <2> QED
        BY <2>1
<1>7. CASE Given(p.brand_version) /\ a = <<"brand version", p.brand_version>>
    <2>1. Is("brand version")
        BY <1>7 DEF Switches, Wanted, ValueOf
    <2> QED
        BY <2>1
<1>8. CASE Given(p.version) /\ a = <<"version", p.version>>
    <2>1. Is("version")
        BY <1>8 DEF Switches, Wanted, ValueOf
    <2> QED
        BY <2>1
<1>9. CASE p.cpus # "none" /\ a = <<"cpus", p.cpus>>
    <2>1. Is("cpus")
        BY <1>9 DEF Switches, Wanted, ValueOf
    <2> QED
        BY <2>1
<1>10. CASE p.strict /\ a = <<"webrtc", "on">>
    <2>1. Is("webrtc")
        BY <1>10 DEF Switches, Wanted, ValueOf
    <2> QED
        BY <2>1
<1>11. CASE p.exclusions /\ a = <<"exclusions", "on">>
    <2>1. Is("exclusions")
        BY <1>11 DEF Switches, Wanted, ValueOf
    <2> QED
        BY <2>1
<1> QED
    BY <1>1, <1>2, <1>3, <1>4, <1>5, <1>6, <1>7, <1>8, <1>9, <1>10, <1>11, AsksAre

\* A switch is asked for with one value.
LEMMA OneValue ==
    ASSUME NEW p \in Fingerprint, NEW a \in Asks(p), NEW b \in Asks(p), a[1] = b[1]
    PROVE  a = b
BY AskIs

\* An engine that applies what it was asked shows it on the surface it is for.
LEMMA ShownAsked ==
    ASSUME NEW p \in Fingerprint, NEW emitted \in SUBSET Asks(p), NEW s \in Surfaces \ {"fonts"},
           NEW v, <<SwitchOf(s), v>> \in emitted
    PROVE  Shown(emitted, s) = v
<1> DEFINE w == <<SwitchOf(s), v>>
           b == CHOOSE a \in emitted : a[1] = SwitchOf(s)
<1>1. w \in emitted /\ w[1] = SwitchOf(s) /\ w[2] = v
    OBVIOUS
<1>2. b \in emitted /\ b[1] = SwitchOf(s)
    BY <1>1
<1>3. b = w
    <2>1. b \in Asks(p) /\ w \in Asks(p) /\ b[1] = w[1]
        BY <1>1, <1>2
    <2> HIDE DEF b, w
    <2> QED
        BY <2>1, OneValue
<1>4. Shown(emitted, s) = b[2]
    BY <1>1 DEF Shown
<1> HIDE DEF b, w
<1> QED
    BY <1>1, <1>3, <1>4

LEMMA ShownType ==
    ASSUME NEW p \in Fingerprint, p.brand \in {"Chrome", "Edge", "Opera", "Vivaldi"},
           NEW emitted \in SUBSET Asks(p), NEW s \in Surfaces,
           \A a \in emitted : a[1] = "brand" => a[2] \in VERIFIED_BRANDS
    PROVE  Shown(emitted, s) \in Reported
<1>1. CASE s = "fonts" \/ ~\E a \in emitted : a[1] = SwitchOf(s)
    BY <1>1 DEF Shown, Reported
<1>2. CASE s # "fonts" /\ \E a \in emitted : a[1] = SwitchOf(s)
    <2>1. PICK b \in emitted : b = (CHOOSE a \in emitted : a[1] = SwitchOf(s)) /\ b[1] = SwitchOf(s)
        BY <1>2
    <2>2. b[2] \in Reported
        <3>1. b[1] \in Switches /\ Wanted(p, b[1]) /\ b[2] = ValueOf(p, b[1])
            BY AskIs
        <3>2. b[1] = "brand" => b[2] \in VERIFIED_BRANDS
            BY <2>1
        <3> HIDE DEF Switches
        <3>3. CASE b[1] \in {"brand", "brand version", "version", "cpus"}
            <4>1. p.brand_version \in Versions /\ p.version \in Versions
                  /\ p.cpus \in {"none", "4", "8"}
                BY DEF Fingerprint
            <4>2. CASE b[1] = "brand"
                BY <3>2, <4>2 DEF Reported, VERIFIED_BRANDS
            <4>3. CASE b[1] \in {"brand version", "version"}
                BY <3>1, <4>1, <4>3 DEF Wanted, ValueOf, Given, Reported, Versions
            <4>4. CASE b[1] = "cpus"
                BY <3>1, <4>1, <4>4 DEF Wanted, ValueOf, Reported
            <4> QED
                BY <3>3, <4>2, <4>3, <4>4
        <3>4. CASE b[1] \notin {"brand", "brand version", "version", "cpus"}
            BY <3>1, <3>4 DEF Switches, ValueOf, Reported, Fingerprint
        <3> QED
            BY <3>3, <3>4
    <2> QED
        BY <1>2, <2>1, <2>2 DEF Shown
<1> QED
    BY <1>1, <1>2

-----------------------------------------------------------------------------
(* The invariant.                                                           *)

\* A running browser keeps what its launch said, for the profile and the major it was
\* launched with.
LaunchSaid ==
    session.up => session.warned = Warning(session.profile, Capabilities(session.known))

\* What a check has found is what its reading shows of its own claims, and of the address.
FoundIsRead ==
    check # NoCheck =>
        /\ check.step \in {"open", "document", "evaluate"} => ~check.failed /\ check.seen = <<>>
        /\ check.failed => check.seen = <<>>
        /\ check.seen # <<>> =>
             check.found \ {"exit address"} =
                Verify(check.profile, Capabilities(check.known), check.seen)
        /\ check.expected # None => check.profile.proxy
        /\ check.step \in {"leave", "done"} /\ ~check.failed =>
             \/ check.expected = None
             \/ check.exit = check.expected
             \/ "exit address" \in check.found

IdentityInv == IdentityTypeOK /\ LaunchSaid /\ FoundIsRead

-----------------------------------------------------------------------------
(* Types, one action after another.                                         *)

LEMMA ZeroOne == 0 \in 0..1 /\ 1 \in 0..1
OBVIOUS

LEMMA FieldTypes ==
    ASSUME NEW p \in Savable
    PROVE  p \in Fingerprint /\ p.proxy \in BOOLEAN
BY IdentityAssumption DEF Fingerprint

LEMMA WarningType ==
    ASSUME NEW p, NEW cap
    PROVE  Warning(p, cap) \in SUBSET {"brand", "exclusions", "unmeasured"}
BY DEF Warning, Findings

LEMMA VerifyType ==
    ASSUME NEW p, NEW cap, NEW seen
    PROVE  Verify(p, cap, seen) \in SUBSET Surfaces
<1>1. Claims(p, cap) \subseteq Surfaces
    BY DEF Claims, Surfaces
<1> QED
    BY <1>1 DEF Verify

\* What a page can show of a running browser.
LEMMA ReadingType ==
    ASSUME IdentityTypeOK, session.up, NEW seen \in Readings
    PROVE  seen \in [Surfaces -> Reported] /\ seen # <<>>
<1> DEFINE shown == Applied(session)
           honest == [s \in Surfaces |-> Shown(shown, s)]
<1>1. session \in Up
    BY DEF IdentityTypeOK, Off
<1>2. session.profile \in Fingerprint
    BY <1>1, FieldTypes DEF Up
<1>3. session.profile.brand \in {"Chrome", "Edge", "Opera", "Vivaldi"}
    BY <1>2 DEF Fingerprint
<1>4. shown \in SUBSET Asks(session.profile)
    BY DEF Applied, Understood, Emitted
<1>5. \A a \in shown : a[1] = "brand" => a[2] \in VERIFIED_BRANDS
    <2> SUFFICES ASSUME NEW a \in shown, a[1] = "brand"  PROVE a[2] \in VERIFIED_BRANDS
        OBVIOUS
    <2>1. a \in Asks(session.profile) /\ session.profile.brand \in VERIFIED_BRANDS
        BY DEF Applied, Understood, Emitted, Capabilities, ClaimOf
    <2>2. a[2] = ValueOf(session.profile, a[1])
        <3>1. ASSUME NEW p \in Fingerprint, NEW b \in Asks(p)  PROVE b[2] = ValueOf(p, b[1])
            BY <3>1, AskIs
        <3> QED
            BY <1>2, <2>1, <3>1
    <2>3. ValueOf(session.profile, "brand") = session.profile.brand
        BY DEF ValueOf
    <2> QED
        BY <2>1, <2>2, <2>3
<1> HIDE DEF shown
<1>6. honest \in [Surfaces -> Reported]
    BY <1>2, <1>3, <1>4, <1>5, ShownType
<1>7. seen = honest \/ \E s \in Surfaces, v \in {"other", "missing"} : seen = [honest EXCEPT ![s] = v]
    BY DEF Readings, shown
<1> HIDE DEF honest
<1>8. seen \in [Surfaces -> Reported]
    <2>1. CASE seen = honest
        BY <1>6, <2>1
    <2>2. ASSUME NEW s \in Surfaces, NEW v \in {"other", "missing"}, seen = [honest EXCEPT ![s] = v]
          PROVE  seen \in [Surfaces -> Reported]
        <3>1. v \in Reported
            BY DEF Reported
        <3> QED
            BY <1>6, <2>2, <3>1
    <2> QED
        BY <1>7, <2>1, <2>2
<1>9. seen # <<>>
    <2>1. DOMAIN seen = Surfaces /\ "fonts" \in Surfaces
        BY <1>8 DEF Surfaces
    <2>2. "fonts" \notin DOMAIN <<>>
        OBVIOUS
    <2> QED
        BY <2>1, <2>2
<1> QED
    BY <1>8, <1>9

LEMMA InitTypes == IdentityInit => IdentityTypeOK
<1> SUFFICES ASSUME IdentityInit  PROVE IdentityTypeOK
    OBVIOUS
<1>1. Probe(disk) \in Majors \cup {0}
    BY IdentityAssumption, ProbeType DEF IdentityInit
<1> QED
    BY <1>1, IdentityAssumption DEF IdentityInit, IdentityTypeOK, NoPage

\* What each step of a check, of the page and of the rest leaves as it was.
StoredOK == stored \in [profile : Savable, known : Majors \cup {0}, tested : Exits \cup {None}]
SessionOK == session = Off \/ session \in Up
CheckOK == check = NoCheck \/ check \in Checks
PageOK == page \in [step : {"off", "accept", "head", "egress"}, left : 0..1, stop : BOOLEAN]

LEMMA TypesAre ==
    IdentityTypeOK <=> /\ StoredOK /\ SessionOK /\ CheckOK /\ PageOK
                       /\ disk \in Layouts /\ changes \in 0..MaxChanges
BY DEF IdentityTypeOK, StoredOK, SessionOK, CheckOK, PageOK

LEMMA TypesStay ==
    ASSUME StoredOK', SessionOK', CheckOK', PageOK', disk' \in Layouts, changes' \in 0..MaxChanges
    PROVE  IdentityTypeOK'
BY DEF IdentityTypeOK, StoredOK, SessionOK, CheckOK, PageOK

LEMMA ChangeType ==
    ASSUME Change, changes \in 0..MaxChanges
    PROVE  changes' \in 0..MaxChanges
BY IdentityAssumption DEF Change

\* A check under way is a record of one.
LEMMA CheckUnderWay ==
    ASSUME CheckOK, NEW step, check.step = step, step # "idle"
    PROVE  check # NoCheck /\ check \in Checks
BY DEF CheckOK, NoCheck

LEMMA UnderWay == ASSUME check \in Checks  PROVE check # NoCheck
<1>1. check.step \in Steps /\ "idle" \notin Steps
    BY DEF Checks, Steps
<1>2. NoCheck.step = "idle"
    BY DEF NoCheck
<1> QED
    BY <1>1, <1>2

LEMMA TabType ==
    ASSUME SessionOK, NEW gone, NEW new \in SUBSET {"own", "left"}, Tab(gone, new)
    PROVE  SessionOK'
<1>1. CASE Alive
    <2>1. session \in Up
        BY <1>1 DEF SessionOK, Alive, Off
    <2>2. (session.tabs \ gone) \cup new \in SUBSET {"own", "left"}
        BY <2>1 DEF Up
    <2>3. session' \in Up
        BY <1>1, <2>1, <2>2 DEF Tab, Up
    <2> QED
        BY <2>3 DEF SessionOK
<1>2. CASE ~Alive
    BY <1>2 DEF Tab, SessionOK
<1> QED
    BY <1>1, <1>2

\* What a closing or an opening that was not confirmed leaves is a page of the check's.
LEMMA BehindType ==
    ASSUME SessionOK, (\E behind \in Behind : Tab({}, behind)) \/ Closes
    PROVE  SessionOK'
BY TabType DEF Behind, Closes

LEMMA GoType ==
    ASSUME check \in Checks, NEW step \in Steps, Go(step)
    PROVE  CheckOK'
<1>1. check' = [step |-> step, profile |-> check.profile, known |-> check.known,
                expected |-> check.expected, seen |-> check.seen, left |-> 1,
                found |-> check.found, exit |-> check.exit, failed |-> check.failed,
                gone |-> check.gone]
    BY DEF Go, Checks
<1>2. check' \in Checks
    BY <1>1, ZeroOne DEF Checks
<1> QED
    BY <1>2 DEF CheckOK

LEMMA ToldType ==
    ASSUME check \in Checks, NEW step \in Steps,
           NEW exit \in Exits \cup {None, "unreadable", "timeout", "not reached", "not asked", "unusable"},
           Told(exit, step)
    PROVE  CheckOK'
<1>1. check.found \cup VerifyEgress(check.expected, exit) \in SUBSET (Surfaces \cup {"exit address"})
    BY DEF Checks, VerifyEgress
<1>2. check' = [step |-> step, profile |-> check.profile, known |-> check.known,
                expected |-> check.expected, seen |-> check.seen, left |-> 1,
                found |-> check.found \cup VerifyEgress(check.expected, exit),
                exit |-> exit, failed |-> check.failed, gone |-> check.gone]
    BY DEF Told, Checks
<1>3. check' \in Checks
    BY <1>1, <1>2, ZeroOne DEF Checks
<1> QED
    BY <1>3 DEF CheckOK

LEMMA CheckStepTypes ==
    ASSUME IdentityTypeOK, Check
    PROVE  IdentityTypeOK'
<1>0. StoredOK /\ SessionOK /\ CheckOK /\ PageOK /\ disk \in Layouts /\ changes \in 0..MaxChanges
    BY TypesAre
<1> SUFFICES SessionOK' /\ CheckOK' /\ Running
    BY <1>0, TypesStay DEF Running, StoredOK, PageOK
<1> USE CheckUnderWay DEF At
<1>1. CASE Open
    BY <1>0, <1>1, TabType, GoType DEF Open, Steps
<1>2. CASE Wait
    <2>1. check \in Checks /\ check' = [check EXCEPT !.left = Remaining(@)] /\ check.left > 0
        BY <1>0, <1>2 DEF Wait
    <2>2. check' \in Checks
        <3>1. check.left \in 0..1
            BY <2>1 DEF Checks
        <3>2. Remaining(check.left) \in 0..1
            BY <2>1, <3>1 DEF Remaining
        <3> QED
            BY <2>1, <3>2 DEF Checks
    <2> QED
        BY <1>0, <1>2, <2>2 DEF Wait, CheckOK, SessionOK
<1>3. CASE Loaded
    BY <1>0, <1>3, GoType DEF Loaded, SessionOK, Steps
<1>4. CASE Evaluate
    <2>1. check \in Checks /\ session.up
        BY <1>0, <1>4 DEF Evaluate, Alive
    <2>2. PICK seen \in Readings :
             check' = [check EXCEPT !.step = "close", !.seen = seen,
                         !.found = Verify(check.profile, Capabilities(check.known), seen)]
        BY <1>4 DEF Evaluate
    <2>3. seen \in [Surfaces -> Reported]
        BY <2>1, ReadingType
    <2>4. Verify(check.profile, Capabilities(check.known), seen) \in SUBSET Surfaces
        BY VerifyType
    <2>5. check' = [step |-> "close", profile |-> check.profile, known |-> check.known,
                    expected |-> check.expected, seen |-> seen, left |-> check.left,
                    found |-> Verify(check.profile, Capabilities(check.known), seen),
                    exit |-> check.exit, failed |-> check.failed, gone |-> check.gone]
        BY <2>1, <2>2 DEF Checks
    <2>6. check' \in Checks
        BY <2>1, <2>3, <2>4, <2>5 DEF Checks, Reported, Steps
    <2> QED
        BY <1>0, <1>4, <2>6 DEF Evaluate, CheckOK, SessionOK
<1>5. CASE Unread
    <2>0. check \in Checks /\ check' = [check EXCEPT !.step = "close", !.failed = TRUE]
        BY <1>0, <1>5 DEF Unread
    <2>1. check' = [step |-> "close", profile |-> check.profile, known |-> check.known,
                    expected |-> check.expected, seen |-> check.seen, left |-> check.left,
                    found |-> check.found, exit |-> check.exit, failed |-> TRUE,
                    gone |-> check.gone]
        BY <2>0 DEF Checks
    <2>2. check' \in Checks
        BY <2>0, <2>1 DEF Checks, Steps
    <2> QED
        BY <1>0, <1>5, <2>2 DEF Unread, CheckOK, SessionOK
<1>6. CASE Refused
    <2>0. check \in Checks /\ check' = [check EXCEPT !.step = "done", !.failed = TRUE]
        BY <1>0, <1>6 DEF Refused
    <2>1. check' = [step |-> "done", profile |-> check.profile, known |-> check.known,
                    expected |-> check.expected, seen |-> check.seen, left |-> check.left,
                    found |-> check.found, exit |-> check.exit, failed |-> TRUE,
                    gone |-> check.gone]
        BY <2>0 DEF Checks
    <2>2. check' \in Checks
        BY <2>0, <2>1 DEF Checks, Steps
    <2> QED
        BY <1>0, <1>6, <2>2, BehindType DEF Refused, CheckOK
<1>7. CASE Close
    BY <1>0, <1>7, BehindType, GoType DEF Close, Steps
<1>8. CASE Ask
    <2>0. check \in Checks /\ Running
        BY <1>0, <1>8 DEF Ask
    <2>1. CASE Alive /\ Tab({}, {"own"}) /\ Go("arrive")
        BY <1>0, <2>0, <2>1, TabType, GoType DEF Steps
    <2>2. CASE session' = session /\ Told("unusable", "done")
        BY <1>0, <2>0, <2>2, ToldType DEF SessionOK, Steps
    <2>3. CASE Told("not asked", "done") /\ \E behind \in Behind : Tab({}, behind)
        BY <1>0, <2>0, <2>3, ToldType, BehindType DEF Steps
    <2> QED
        BY <1>8, <2>1, <2>2, <2>3 DEF Ask
<1>9. CASE Arrive
    <2>0. check \in Checks /\ Running /\ session' = session
        BY <1>0, <1>9 DEF Arrive
    <2>1. PICK exit \in Exits \cup {"unreadable", "timeout", "not reached", "not asked"} :
             Told(exit, "leave")
        BY <1>9 DEF Arrive, Outcomes
    <2> QED
        BY <1>0, <2>0, <2>1, ToldType DEF SessionOK, Steps
<1>10. CASE Leave
    BY <1>0, <1>10, BehindType, GoType DEF Leave, Steps
<1>11. CASE Finish
    BY <1>0, <1>11 DEF Finish, CheckOK, SessionOK
<1> QED
    BY <1>1, <1>2, <1>3, <1>4, <1>5, <1>6, <1>7, <1>8, <1>9, <1>10, <1>11 DEF Check

LEMMA PageType ==
    ASSUME PageOK, NEW step \in {"accept", "head", "egress"}, NEW left \in 0..1, Page(step, left)
    PROVE  PageOK' /\ UNCHANGED <<stored, disk, session, check, changes>>
<1>1. page' = [step |-> step, left |-> left, stop |-> page.stop]
    BY DEF Page, PageOK
<1> QED
    BY <1>1 DEF Page, PageOK

LEMMA PageStepTypes ==
    ASSUME IdentityTypeOK, Accept \/ Head \/ Serve
    PROVE  IdentityTypeOK'
<1>0. StoredOK /\ SessionOK /\ CheckOK /\ PageOK /\ disk \in Layouts /\ changes \in 0..MaxChanges
    BY TypesAre
<1>1. PageOK' /\ UNCHANGED <<stored, disk, session, check, changes>>
    <2>1. CASE \E step \in {"accept", "head", "egress"}, left \in 0..1 : Page(step, left)
        BY <1>0, <2>1, PageType
    <2>2. CASE PageEnds
        BY <2>2 DEF PageEnds, PageOK, NoPage
    <2>3. ASSUME Drips  PROVE \E step \in {"accept", "head", "egress"}, left \in 0..1 : Page(step, left)
        BY <1>0, <2>3 DEF Drips, Remaining, PageOK
    <2>4. ASSUME Accept \/ Head \/ Late
          PROVE  \E step \in {"accept", "head", "egress"}, left \in 0..1 : Page(step, left)
        BY <2>4 DEF Accept, Head, Late
    <2> QED
        BY <2>1, <2>2, <2>3, <2>4 DEF Serve
<1> QED
    BY <1>0, <1>1, TypesStay DEF StoredOK, SessionOK, CheckOK

LEMMA TypeStep ==
    ASSUME IdentityTypeOK, [IdentityNext]_identity
    PROVE  IdentityTypeOK'
<1>0. StoredOK /\ SessionOK /\ CheckOK /\ PageOK /\ disk \in Layouts /\ changes \in 0..MaxChanges
    BY TypesAre
<1>p. Probe(disk) \in Majors \cup {0}
    BY <1>0, IdentityAssumption, ProbeType
<1> USE TypesStay
<1>1. CASE EditProfile
    BY <1>0, <1>1, ChangeType DEF EditProfile, StoredOK, SessionOK, CheckOK, PageOK
<1>2. CASE ReplaceEngine
    BY <1>0, <1>2, ChangeType DEF ReplaceEngine, StoredOK, SessionOK, CheckOK, PageOK
<1>3. CASE Redetect
    BY <1>0, <1>p, <1>3, ChangeType DEF Redetect, StoredOK, SessionOK, CheckOK, PageOK
<1>4. CASE Reopen
    <2>1. StoredOK'
        BY <1>0, <1>p, <1>4 DEF Reopen, Refreshed, StoredOK
    <2>2. PageOK'
        BY <1>4 DEF Reopen, PageOK, NoPage
    <2>3. SessionOK' /\ CheckOK'
        BY <1>0, <1>4 DEF Reopen, SessionOK, CheckOK
    <2> QED
        BY <1>0, <1>4, <2>1, <2>2, <2>3 DEF Reopen
<1>5. CASE TestProxy
    BY <1>0, <1>5, ChangeType DEF TestProxy, StoredOK, SessionOK, CheckOK, PageOK
<1>6. CASE Launch
    <2>1. session' \in Up
        <3>1. stored.known \in Majors /\ stored.profile \in Savable /\ disk.actual \in Majors
            BY <1>0, <1>6, IdentityAssumption DEF Launch, Plans, Resolves, StoredOK, Layout
        <3>2. Warning(stored.profile, Capabilities(stored.known))
                 \in SUBSET {"brand", "exclusions", "unmeasured"}
            BY WarningType
        <3> QED
            BY <1>6, <3>1, <3>2 DEF Launch, Up
    <2>2. PageOK'
        <3>1. page' = NoPage \/ page' = [step |-> "accept", left |-> 0, stop |-> FALSE]
            BY <1>6 DEF Launch, NoPage
        <3>2. CASE page' = NoPage
            BY <3>2, ZeroOne DEF PageOK, NoPage
        <3>3. CASE page' = [step |-> "accept", left |-> 0, stop |-> FALSE]
            BY <3>3, ZeroOne DEF PageOK
        <3> QED
            BY <3>1, <3>2, <3>3
    <2> QED
        BY <1>0, <1>6, <2>1, <2>2 DEF Launch, StoredOK, SessionOK, CheckOK
<1>7. CASE Stop
    <2>1. CheckOK'
        BY <1>0, <1>7 DEF Stop, CheckOK, Checks
    <2>2. PageOK'
        BY <1>0, <1>7 DEF Stop, PageOK
    <2> QED
        BY <1>0, <1>7, <2>1, <2>2 DEF Stop, StoredOK, SessionOK
<1>8. CASE Begin
    <2>1. stored.known \in Majors /\ stored.profile \in Savable /\ stored.tested \in Exits \cup {None}
        BY <1>0, <1>8 DEF Begin, Resolves, StoredOK
    <2>2. check' \in Checks
        BY <1>8, <2>1 DEF Begin, Checks, Steps
    <2> QED
        BY <1>0, <1>8, <2>2 DEF Begin, Running, StoredOK, SessionOK, CheckOK, PageOK
<1>9. CASE Check
    BY <1>9, CheckStepTypes
<1>10. CASE Accept \/ Head \/ Serve
    BY <1>10, PageStepTypes
<1>11. CASE UNCHANGED identity
    BY <1>0, <1>11 DEF identity, StoredOK, SessionOK, CheckOK, PageOK
<1> QED
    BY <1>1, <1>2, <1>3, <1>4, <1>5, <1>6, <1>7, <1>8, <1>9, <1>10, <1>11 DEF IdentityNext

-----------------------------------------------------------------------------
(* What a launch said, and what a check has found.                          *)

LEMMA TabSaid ==
    ASSUME SessionOK, LaunchSaid, NEW gone, NEW new, Tab(gone, new)
    PROVE  LaunchSaid'
<1>1. CASE Alive
    <2>1. session \in Up
        BY <1>1 DEF SessionOK, Alive, Off
    <2>2. /\ session'.profile = session.profile /\ session'.known = session.known
          /\ session'.warned = session.warned /\ session.up
        BY <1>1, <2>1 DEF Tab, Up
    <2> QED
        BY <2>2 DEF LaunchSaid
<1>2. CASE ~Alive
    BY <1>2 DEF Tab, LaunchSaid
<1> QED
    BY <1>1, <1>2

LEMMA SaidStep ==
    ASSUME IdentityTypeOK, LaunchSaid, [IdentityNext]_identity
    PROVE  LaunchSaid'
<1>1. CASE session' = session
    BY <1>1 DEF LaunchSaid
<1>2. CASE session' = Off
    BY <1>2 DEF LaunchSaid, Off
<1>3. ASSUME NEW gone, NEW new, Tab(gone, new)  PROVE LaunchSaid'
    BY <1>3, TabSaid DEF IdentityTypeOK, SessionOK
<1>4. CASE Launch
    BY <1>4 DEF Launch, LaunchSaid
<1>5. CASE Open \/ Refused \/ Close \/ Leave
    BY <1>5, <1>3 DEF Open, Refused, Close, Leave, Closes
<1>6. CASE Ask
    BY <1>6, <1>1, <1>3 DEF Ask
<1>7. ASSUME Accept \/ Head \/ Serve  PROVE session' = session
    BY <1>7 DEF Accept, Head, Serve, PageEnds, Drips, Late, Page
<1>8. ASSUME EditProfile \/ ReplaceEngine \/ Redetect \/ TestProxy \/ Begin \/ Finish
      PROVE  session' = session
    BY <1>8 DEF EditProfile, ReplaceEngine, Redetect, TestProxy, Begin, Finish
<1>9. ASSUME Wait \/ Loaded \/ Evaluate \/ Unread \/ Arrive
      PROVE  session' = session
    BY <1>9 DEF Wait, Loaded, Evaluate, Unread, Arrive
<1>10. ASSUME Reopen \/ Stop  PROVE session' = session \/ session' = Off
    BY <1>10 DEF Reopen, Stop
<1>11. ASSUME UNCHANGED identity  PROVE session' = session
    BY <1>11 DEF identity
<1> QED
    BY <1>1, <1>2, <1>4, <1>5, <1>6, <1>7, <1>8, <1>9, <1>10, <1>11 DEF IdentityNext, Check

\* The three parts of FoundIsRead that a step of the check carries over.
LEMMA GoKeeps ==
    ASSUME check \in Checks, FoundIsRead, NEW step \in Steps, Go(step),
           step \in {"open", "document", "evaluate"} => ~check.failed /\ check.seen = <<>>,
           step \in {"leave", "done"} /\ ~check.failed =>
              check.expected = None \/ check.exit = check.expected \/ "exit address" \in check.found
    PROVE  FoundIsRead'
<1>1. check # NoCheck
    BY UnderWay
<1>2. /\ check'.step = step /\ check'.failed = check.failed /\ check'.seen = check.seen
      /\ check'.found = check.found /\ check'.profile = check.profile
      /\ check'.known = check.known /\ check'.expected = check.expected /\ check'.exit = check.exit
    BY DEF Go, Checks
<1> QED
    BY <1>1, <1>2 DEF FoundIsRead

LEMMA ToldKeeps ==
    ASSUME check \in Checks, FoundIsRead, NEW step \in {"leave", "done"}, NEW exit, Told(exit, step)
    PROVE  FoundIsRead'
<1>1. check # NoCheck
    BY UnderWay
<1>2. /\ check'.step = step /\ check'.failed = check.failed /\ check'.seen = check.seen
      /\ check'.found = check.found \cup VerifyEgress(check.expected, exit)
      /\ check'.profile = check.profile /\ check'.exit = exit
      /\ check'.known = check.known /\ check'.expected = check.expected
    BY DEF Told, Checks
<1>3. check'.found \ {"exit address"} = check.found \ {"exit address"}
    BY <1>2 DEF VerifyEgress
<1>4. check'.expected = None \/ check'.exit = check'.expected \/ "exit address" \in check'.found
    BY <1>2 DEF VerifyEgress
<1>5. check.failed => check.seen = <<>>
    BY <1>1 DEF FoundIsRead
<1> QED
    BY <1>1, <1>2, <1>3, <1>4, <1>5 DEF FoundIsRead

LEMMA FoundStep ==
    ASSUME IdentityTypeOK, FoundIsRead, [IdentityNext]_identity
    PROVE  FoundIsRead'
<1>0. CheckOK /\ SessionOK /\ StoredOK
    BY TypesAre
<1>1. CASE check' = check
    BY <1>1 DEF FoundIsRead
<1> USE DEF At
<1>2. CASE Stop
    <2>1. CASE check = NoCheck
        BY <1>1, <1>2, <2>1 DEF Stop
    <2>2. CASE check # NoCheck
        <3>1. check \in Checks /\ check' = [check EXCEPT !.gone = TRUE]
            BY <1>0, <1>2, <2>2 DEF Stop, CheckOK
        <3>2. /\ check'.step = check.step /\ check'.failed = check.failed
              /\ check'.seen = check.seen /\ check'.found = check.found
              /\ check'.profile = check.profile /\ check'.known = check.known
              /\ check'.expected = check.expected /\ check'.exit = check.exit
            BY <3>1 DEF Checks
        <3> QED
            BY <2>2, <3>2 DEF FoundIsRead
    <2> QED
        BY <2>1, <2>2
<1>3. CASE Begin
    <2>1. /\ check'.step = "open" /\ check'.failed = FALSE /\ check'.seen = <<>>
          /\ check'.profile = stored.profile
          /\ check'.expected = IF stored.profile.proxy THEN stored.tested ELSE None
        BY <1>3 DEF Begin
    <2> QED
        BY <2>1 DEF FoundIsRead
<1>4. CASE Open
    <2>1. check \in Checks /\ ~check.failed /\ check.seen = <<>>
        BY <1>0, <1>4, CheckUnderWay DEF Open, FoundIsRead
    <2> QED
        BY <1>4, <2>1, GoKeeps DEF Open, Steps
<1>5. CASE Wait
    <2>1. check \in Checks /\ check # NoCheck /\ check' = [check EXCEPT !.left = Remaining(@)]
        BY <1>0, <1>5, CheckUnderWay DEF Wait
    <2>2. /\ check'.step = check.step /\ check'.failed = check.failed
          /\ check'.seen = check.seen /\ check'.found = check.found
          /\ check'.profile = check.profile /\ check'.known = check.known
          /\ check'.expected = check.expected /\ check'.exit = check.exit
        BY <2>1 DEF Checks
    <2> QED
        BY <2>1, <2>2 DEF FoundIsRead
<1>6. CASE Loaded
    <2>1. check \in Checks /\ ~check.failed /\ check.seen = <<>>
        BY <1>0, <1>6, CheckUnderWay DEF Loaded, FoundIsRead
    <2> QED
        BY <1>6, <2>1, GoKeeps DEF Loaded, Steps
<1>7. CASE Evaluate
    <2>1. check \in Checks /\ check # NoCheck /\ check.step = "evaluate"
        BY <1>0, <1>7, CheckUnderWay DEF Evaluate
    <2>2. PICK seen \in Readings :
             check' = [check EXCEPT !.step = "close", !.seen = seen,
                         !.found = Verify(check.profile, Capabilities(check.known), seen)]
        BY <1>7 DEF Evaluate
    <2>3. /\ check'.step = "close" /\ check'.failed = check.failed /\ check'.seen = seen
          /\ check'.found = Verify(check.profile, Capabilities(check.known), seen)
          /\ check'.profile = check.profile /\ check'.known = check.known
          /\ check'.expected = check.expected
        BY <2>1, <2>2 DEF Checks
    <2>4. check'.found \ {"exit address"} = check'.found
        BY <2>3, VerifyType DEF Surfaces
    <2>5. ~check.failed
        BY <2>1 DEF FoundIsRead
    <2> QED
        BY <2>1, <2>3, <2>4, <2>5 DEF FoundIsRead
<1>8. CASE Unread \/ Refused
    <2>1. PICK step \in {"close", "done"} : check' = [check EXCEPT !.step = step, !.failed = TRUE]
        BY <1>8 DEF Unread, Refused
    <2>2. check \in Checks /\ check # NoCheck /\ check.seen = <<>>
        BY <1>0, <1>8, CheckUnderWay DEF Unread, Refused, FoundIsRead
    <2>3. /\ check'.step = step /\ check'.failed = TRUE /\ check'.seen = <<>>
          /\ check'.profile = check.profile /\ check'.expected = check.expected
        BY <2>1, <2>2 DEF Checks
    <2> QED
        BY <2>2, <2>3 DEF FoundIsRead
<1>9. CASE Close
    <2>1. check \in Checks /\ check # NoCheck
        BY <1>0, <1>9, CheckUnderWay DEF Close
    <2>2. check.expected # None => check.profile.proxy
        BY <2>1 DEF FoundIsRead
    <2> QED
        BY <1>9, <2>1, <2>2, GoKeeps DEF Close, Steps
<1>10. CASE Ask
    <2>1. check \in Checks
        BY <1>0, <1>10, CheckUnderWay DEF Ask
    <2> QED
        BY <1>10, <2>1, GoKeeps, ToldKeeps DEF Ask, Steps
<1>11. CASE Arrive
    <2>1. check \in Checks
        BY <1>0, <1>11, CheckUnderWay DEF Arrive
    <2> QED
        BY <1>11, <2>1, ToldKeeps DEF Arrive
<1>12. CASE Leave
    <2>1. check \in Checks /\ check # NoCheck
        BY <1>0, <1>12, CheckUnderWay DEF Leave
    <2>2. ~check.failed => check.expected = None \/ check.exit = check.expected
                              \/ "exit address" \in check.found
        BY <1>12, <2>1 DEF Leave, FoundIsRead
    <2> QED
        BY <1>12, <2>1, <2>2, GoKeeps DEF Leave, Steps
<1>13. CASE Finish
    BY <1>13 DEF Finish, FoundIsRead
<1>14. ASSUME Accept \/ Head \/ Serve  PROVE check' = check
    BY <1>14 DEF Accept, Head, Serve, PageEnds, Drips, Late, Page
<1>15. ASSUME EditProfile \/ ReplaceEngine \/ Redetect \/ Reopen \/ TestProxy \/ Launch
       PROVE  check' = check
    BY <1>15 DEF EditProfile, ReplaceEngine, Redetect, Reopen, TestProxy, Launch
<1>16. ASSUME UNCHANGED identity  PROVE check' = check
    BY <1>16 DEF identity
<1> QED
    BY <1>1, <1>2, <1>3, <1>4, <1>5, <1>6, <1>7, <1>8, <1>9, <1>10, <1>11, <1>12, <1>13, <1>14,
       <1>15, <1>16 DEF IdentityNext, Check

\* The invariant: types, what a launch said, and what a check has found.
LEMMA IdentityInvariant == IdentitySpec => []IdentityInv
<1>1. IdentityInit => IdentityInv
    BY InitTypes DEF IdentityInit, IdentityInv, LaunchSaid, FoundIsRead, Off
<1>2. IdentityInv /\ [IdentityNext]_identity => IdentityInv'
    BY TypeStep, SaidStep, FoundStep DEF IdentityInv
<1> QED
    BY <1>1, <1>2, PTL DEF IdentitySpec

-----------------------------------------------------------------------------
(* Silence is proof.                                                        *)

\* A claim a check does not find against was read as claimed, the list of languages
\* excepted, which may have passed unread.
LEMMA SilentClaim ==
    ASSUME NEW p, NEW cap, NEW seen, Verify(p, cap, seen) = {}, NEW s \in Claims(p, cap)
    PROVE  seen[s] = Claimed(p, s) \/ (s = "languages" /\ seen[s] = "missing")
BY DEF Verify, Differs

\* Whatever a profile asks for and a check can read back is held against the browser, but
\* for a brand the launch warned of.
LEMMA AskedIsClaimed ==
    ASSUME NEW p \in Fingerprint, NEW major, NEW a \in Asks(p), a[1] \notin Unverified
    PROVE  \/ a[1] \in Warning(p, Capabilities(major))
           \/ a[1] \in Claims(p, Capabilities(major)) /\ Claimed(p, a[1]) = a[2]
<1> DEFINE cap == Capabilities(major)
<1>1. cap.brands = VERIFIED_BRANDS /\ brand_readback = VERIFIED_BRANDS
    BY DEF Capabilities, brand_readback
<1>2. a[1] \in Switches /\ Wanted(p, a[1]) /\ a[2] = ValueOf(p, a[1])
    BY AskIs
<1> HIDE DEF cap
<1>3. CASE a[1] = "brand"
    <2>1. CASE p.brand \in cap.brands
        BY <1>1, <1>2, <1>3, <2>1 DEF Claims, Claimed, ValueOf, cap
    <2>2. CASE p.brand \notin cap.brands
        BY <1>3, <2>2 DEF Warning, Findings, cap
    <2> QED
        BY <2>1, <2>2
<1>4. CASE a[1] \in {"platform", "languages"}
    BY <1>2, <1>4 DEF Claims, Claimed, ValueOf, cap
<1>5. CASE a[1] = "version"
    BY <1>2, <1>5 DEF Claims, Claimed, ValueOf, Wanted, Stated, cap
<1>6. CASE a[1] = "cpus"
    BY <1>2, <1>6 DEF Claims, Claimed, ValueOf, Wanted, cap
<1>7. CASE a[1] = "webrtc"
    BY <1>2, <1>7 DEF Claims, Claimed, ValueOf, Wanted, cap
<1> QED
    BY <1>2, <1>3, <1>4, <1>5, <1>6, <1>7 DEF Switches, Unverified

LEMMA SilenceFollows == IdentityInv => SilenceIsProof
<1> SUFFICES ASSUME IdentityInv, Read, check.found = {}
             PROVE  /\ check.expected # None => check.exit = check.expected
                    /\ Unchanged =>
                         \A a \in {b \in Asks(check.profile) : b[1] \notin Unverified} :
                            \/ a[1] \in session.warned
                            \/ check.seen[a[1]] = a[2]
                            \/ a[1] = "languages" /\ check.seen[a[1]] = "missing"
    BY DEF SilenceIsProof, IdentityInv
<1>1. check \in Checks /\ check # NoCheck /\ check.step = "done" /\ check.seen # <<>> /\ session.up
    BY CheckUnderWay, TypesAre DEF Read, At, Alive, IdentityInv
<1>2. ~check.failed
    BY <1>1 DEF IdentityInv, FoundIsRead
<1>3. check.expected # None => check.exit = check.expected
    BY <1>1, <1>2 DEF IdentityInv, FoundIsRead
<1>4. Verify(check.profile, Capabilities(check.known), check.seen) = {}
    BY <1>1 DEF IdentityInv, FoundIsRead
<1>5. ASSUME Unchanged, NEW a \in Asks(check.profile), a[1] \notin Unverified
      PROVE  \/ a[1] \in session.warned
             \/ check.seen[a[1]] = a[2]
             \/ a[1] = "languages" /\ check.seen[a[1]] = "missing"
    <2>1. session.warned = Warning(check.profile, Capabilities(check.known))
        BY <1>1, <1>5 DEF IdentityInv, LaunchSaid, Unchanged
    <2>2. check.profile \in Fingerprint
        BY <1>1, FieldTypes DEF Checks
    <2>3. CASE a[1] \in Claims(check.profile, Capabilities(check.known))
                  /\ Claimed(check.profile, a[1]) = a[2]
        BY <1>4, <2>3, SilentClaim
    <2> QED
        BY <1>5, <2>1, <2>2, <2>3, AskedIsClaimed
<1> QED
    BY <1>3, <1>5

\* A check that finds nothing against a running browser has read as claimed whatever its
\* profile asks for that a check reads back (not the seed, the brand's version, the locale,
\* noise and exclusions), or the launch had warned of it, or it is a list of languages
\* that was not reported; and its address is the one tested.
THEOREM SilenceProves == IdentitySpec => []SilenceIsProof
BY IdentityInvariant, SilenceFollows, PTL

-----------------------------------------------------------------------------
(* Warnings are right.                                                      *)

\* What a launch asks for and the engine would show, were it asked for all of it.
LEMMA ClaimIsShown ==
    ASSUME NEW p \in Fingerprint, NEW major, NEW s \in Claims(p, Capabilities(major))
    PROVE  Shown(Emitted(p, Capabilities(major)), s) = Claimed(p, s)
<1> DEFINE cap == Capabilities(major)
           emitted == Emitted(p, cap)
<1>1. cap.brands = VERIFIED_BRANDS /\ brand_readback = VERIFIED_BRANDS
    BY DEF Capabilities, brand_readback
<1>2. emitted \in SUBSET Asks(p)
    BY DEF Emitted
<1> HIDE DEF cap
<1>3. \A v : <<"platform", v>> \in Asks(p) => <<"platform", v>> \in emitted
    BY DEF Emitted, ClaimOf
<1>4. \A v : <<"languages", v>> \in Asks(p) => <<"languages", v>> \in emitted
    BY DEF Emitted, ClaimOf
<1>5. \A v : p.brand \in cap.brands /\ <<"brand", v>> \in Asks(p) => <<"brand", v>> \in emitted
    BY DEF Emitted, ClaimOf
<1>6. \A v : <<"version", v>> \in Asks(p) => <<"version", v>> \in emitted
    BY DEF Emitted, ClaimOf
<1>7. \A v : <<"cpus", v>> \in Asks(p) => <<"cpus", v>> \in emitted
    BY DEF Emitted, ClaimOf
<1>8. \A v : <<"webrtc", v>> \in Asks(p) => <<"webrtc", v>> \in emitted
    BY DEF Emitted, ClaimOf
<1>9. s \in Claims(p, cap)
    BY DEF cap
<1> HIDE DEF emitted
<1>10. CASE s \in {"platform", "user agent"}
    <2>1. <<"platform", p.base>> \in emitted
        BY <1>3, AsksAre
    <2>2. SwitchOf(s) = "platform" /\ s \in Surfaces \ {"fonts"} /\ Claimed(p, s) = p.base
        BY <1>10 DEF SwitchOf, Surfaces, Claimed
    <2> QED
        BY <1>2, <2>1, <2>2, ShownAsked DEF emitted, cap
<1>11. CASE s = "fonts"
    BY <1>11 DEF Shown, Claimed
<1>12. ASSUME NEW v, s \notin {"fonts", "user agent"}, s \in Surfaces, <<s, v>> \in emitted,
              Claimed(p, s) = v
       PROVE  Shown(emitted, s) = Claimed(p, s)
    <2>1. SwitchOf(s) = s
        BY <1>12 DEF SwitchOf
    <2> QED
        BY <1>2, <1>12, <2>1, ShownAsked
<1>13. CASE s = "languages"
    <2>1. <<s, p.base>> \in emitted /\ Claimed(p, s) = p.base /\ s \in Surfaces
        BY <1>4, <1>13, AsksAre DEF Claimed, Surfaces
    <2> QED
        BY <1>12, <1>13, <2>1 DEF emitted, cap
<1>14. CASE s = "brand"
    <2>1. <<s, p.brand>> \in emitted /\ Claimed(p, s) = p.brand /\ s \in Surfaces
        <3>1. p.brand \in cap.brands
            BY <1>9, <1>14 DEF Claims
        <3> QED
            BY <1>5, <1>14, <3>1, AsksAre DEF Claimed, Surfaces
    <2> QED
        BY <1>12, <1>14, <2>1 DEF emitted, cap
<1>15. CASE s = "version"
    <2>1. <<s, p.version>> \in emitted /\ Claimed(p, s) = p.version /\ s \in Surfaces
        <3>1. Given(p.version)
            BY <1>9, <1>15 DEF Claims, Stated
        <3> QED
            BY <1>6, <1>15, <3>1, AsksAre DEF Claimed, Surfaces
    <2> QED
        BY <1>12, <1>15, <2>1 DEF emitted, cap
<1>16. CASE s = "cpus"
    <2>1. <<s, p.cpus>> \in emitted /\ Claimed(p, s) = p.cpus /\ s \in Surfaces
        <3>1. p.cpus # "none"
            BY <1>9, <1>16 DEF Claims
        <3> QED
            BY <1>7, <1>16, <3>1, AsksAre DEF Claimed, Surfaces
    <2> QED
        BY <1>12, <1>16, <2>1 DEF emitted, cap
<1>17. CASE s = "webrtc"
    <2>1. <<s, "on">> \in emitted /\ Claimed(p, s) = "on" /\ s \in Surfaces
        <3>1. p.strict
            BY <1>9, <1>17 DEF Claims
        <3> QED
            BY <1>8, <1>17, <3>1, AsksAre DEF Claimed, Surfaces
    <2> QED
        BY <1>12, <1>17, <2>1 DEF emitted, cap
<1> QED
    BY <1>9, <1>10, <1>11, <1>13, <1>14, <1>15, <1>16, <1>17 DEF Claims

LEMMA WarnedFollows == IdentityInv => OmittedIsWarned
<1> SUFFICES ASSUME IdentityInv, session.up, session.actual = session.known,
                    NEW a \in Asks(session.profile), a \notin Applied(session)
             PROVE  ClaimOf(a) \in session.warned
    BY DEF OmittedIsWarned
<1> DEFINE p == session.profile
           cap == Capabilities(session.known)
<1>1. session \in Up /\ session.warned = Warning(p, cap)
    BY TypesAre DEF IdentityInv, LaunchSaid, SessionOK, Off
<1>2. p \in Fingerprint /\ session.known \in Majors
    BY <1>1, FieldTypes DEF Up
<1>3. cap.exclusions <=> session.actual >= PIVOT_MAJOR
    BY DEF Capabilities
<1> HIDE DEF p, cap
<1>4. CASE ClaimOf(a) = "brand" /\ p.brand \notin cap.brands
    BY <1>1, <1>4 DEF Warning, Findings
<1>5. CASE a[1] = "exclusions" /\ ~cap.exclusions
    <2>1. p.exclusions
        BY <1>2, <1>5, AskIs DEF Wanted, p
    <2> QED
        BY <1>1, <1>5, <2>1 DEF Warning, Findings, ClaimOf
<1>6. CASE ~(ClaimOf(a) = "brand" /\ p.brand \notin cap.brands) /\ ~(a[1] = "exclusions" /\ ~cap.exclusions)
    <2>1. a \in Emitted(p, cap)
        BY <1>6 DEF Emitted, p
    <2> QED
        BY <1>3, <1>6, <2>1 DEF Applied, Understood, p, cap
<1> QED
    BY <1>4, <1>5, <1>6

LEMMA NoAlarmFollows == IdentityInv => NoFalseAlarm
<1> SUFFICES ASSUME IdentityInv, Read, Unchanged,
                    check.seen = [s \in Surfaces |-> Shown(Emitted(session.profile,
                                                       Capabilities(session.known)), s)]
             PROVE  check.found \subseteq {"exit address"}
    BY DEF NoFalseAlarm
<1> DEFINE p == check.profile
           cap == Capabilities(check.known)
<1>1. check \in Checks /\ check # NoCheck
    BY CheckUnderWay, TypesAre DEF Read, At, IdentityInv
<1>2. p \in Fingerprint
    BY <1>1, FieldTypes DEF Checks
<1>3. check.found \ {"exit address"} = Verify(p, cap, check.seen)
    BY <1>1 DEF IdentityInv, FoundIsRead, Read
<1>4. ASSUME NEW s \in Claims(p, cap)  PROVE check.seen[s] = Claimed(p, s)
    <2>1. s \in Surfaces
        BY DEF Claims, Surfaces
    <2>2. check.seen[s] = Shown(Emitted(p, cap), s)
        BY <2>1 DEF Unchanged
    <2> QED
        BY <1>2, <1>4, <2>2, ClaimIsShown
<1> HIDE DEF p, cap
<1>5. Verify(p, cap, check.seen) = {}
    BY <1>4 DEF Verify, Differs
<1> QED
    BY <1>3, <1>5

\* What a launch leaves out it warns of, and a browser that shows what it was launched
\* with is never accused of a claim the launch could not make.
THEOREM WarningsHold == IdentitySpec => []WarningsAreRight
<1>1. IdentityInv => WarningsAreRight
    BY WarnedFollows, NoAlarmFollows DEF WarningsAreRight
<1> QED
    BY <1>1, IdentityInvariant, PTL

=============================================================================
