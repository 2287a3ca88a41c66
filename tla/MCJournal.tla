------------------------------- MODULE MCJournal -------------------------------
(* A small instance of Journal for TLC.                                     *)
EXTENDS Journal

CONSTANTS p1, p2

\* Where every process can be identified, two starts of a profile whose old
\* engine lives on beside a stranger; elsewhere, one more run and mishap.
Few == [w \in Worlds |->
           IF w = "clear" THEN [born |-> 5, runs |-> 2, mishaps |-> 1, strangers |-> 1]
           ELSE [born |-> 3, runs |-> 3, mishaps |-> 1, strangers |-> 1]]

=============================================================================
