--------------------------- MODULE MCCreatorPage ----------------------------
(* Instances of CreatorPage for TLC: the bounds are numbers, so that the   *)
(* configurations alone give them.                                         *)
EXTENDS CreatorPage
=============================================================================
