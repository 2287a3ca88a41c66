-------------------------------- MODULE MCExit --------------------------------
(* Two copies of the program on one data directory.                         *)
EXTENDS Exit

CONSTANTS c1, c2, p1

=============================================================================
