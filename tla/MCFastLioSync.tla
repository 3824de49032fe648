---------------------------- MODULE MCFastLioSync ----------------------------
(* Instances of the scan and IMU pairing for TLC: the .cfg files give the     *)
(* steps between stamps and the bounds.                                       *)
EXTENDS FastLioSync
=============================================================================
