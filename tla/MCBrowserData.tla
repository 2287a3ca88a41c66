---------------------------- MODULE MCBrowserData ----------------------------
(* The transfer on small instances.                                         *)
EXTENDS BrowserData, TLC

CONSTANTS p1, p2

OneProfile == {p1}
TwoProfiles == {p1, p2}
Symmetric == Permutations(TwoProfiles)
=============================================================================
