----------------------------- MODULE MCSearches -----------------------------
(* Instances of Searches for TLC.                                          *)
EXTENDS Searches

CONSTANTS i1, i2, i3, k1, k2, k3
=============================================================================
