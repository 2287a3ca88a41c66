-------------------------------- MODULE MCWindow -------------------------------
(* A small window: see the .cfg file for the bounds. *)
EXTENDS Window
=============================================================================
