------------------------------ MODULE MCDownloads ------------------------------
(* Two releases of each kind and three downloads: see MCDownloads.cfg. *)
EXTENDS Downloads
=============================================================================
