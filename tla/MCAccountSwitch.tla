---------------------------- MODULE MCAccountSwitch ----------------------------
(* Instances of AccountSwitch for TLC.  Accounts and taps are alike, but   *)
(* liveness is checked with safety, hence without symmetry.                *)
EXTENDS AccountSwitch
=============================================================================
