---------------------------- MODULE MCWaterFall -----------------------------
(* Instances of WaterFall for TLC, with the application's own numbers.     *)
EXTENDS WaterFall
=============================================================================
