----------------------------- MODULE MCSupervisor -----------------------------
(* The supervisor on small instances.                                       *)
EXTENDS Supervisor

CONSTANTS p1, p2

TwoProfiles == {p1, p2}
OneProxied == {p2}
=============================================================================
