---------------------------- MODULE AtomicReplace ----------------------------
(***************************************************************************)
(* What the transfer of browser data promises, whatever it is made of: a   *)
(* directory changes because a browser writes in it, or because it becomes *)
(* a whole copy of its counterpart, in one step.  A transfer that fails or *)
(* is killed changes nothing.                                              *)
(***************************************************************************)
CONSTANTS Dirs, Runs, Absent, Counterpart(_), IsOwn(_)

VARIABLE data    \* what each directory holds: the runs of a browser in it

Init == data \in [Dirs -> {Absent} \cup SUBSET Runs]

Held(d) == IF data[d] = Absent THEN {} ELSE data[d]

Browse(d) ==
    /\ IsOwn(d)
    /\ \E r \in Runs : data' = [data EXCEPT ![d] = Held(d) \cup {r}]

Replace(d) ==
    /\ data[Counterpart(d)] # Absent
    /\ data' = [data EXCEPT ![d] = data[Counterpart(d)]]

Next == \E d \in Dirs : Browse(d) \/ Replace(d)

Spec == Init /\ [][Next]_data
=============================================================================
