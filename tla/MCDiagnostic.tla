----------------------------- MODULE MCDiagnostic ------------------------------
(* Two tests and one port to quarrel about: see MCDiagnostic.cfg.  The   *)
(* tests are interchangeable, and so are the ports; no symmetry is declared,     *)
(* since the run checks liveness.                                                *)
EXTENDS Diagnostic
=============================================================================
