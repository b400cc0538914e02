---------------------------- MODULE MCJobHistory ----------------------------
(* JobHistory on small instances: one scrape key and one singleton job are *)
(* enough for every interaction of two keys (the shared cap of undrain);   *)
(* two hours of window out of three let a slot leave it.                   *)
EXTENDS JobHistory, TLC

(* Nothing tells one arming from another; the run that uses it checks no   *)
(* liveness property.                                                      *)
ArmingsAlike == Permutations(Armings)
=============================================================================
