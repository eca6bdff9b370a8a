---------------------------- MODULE MCBrainBridge ----------------------------
(* Model-checking instance of BrainBridge; the values are in the cfg files. *)
EXTENDS BrainBridge
=============================================================================
