---------------------------- MODULE MCBrainSession ----------------------------
(* Model-checking instance of BrainSession; the values are in the cfg files. *)
EXTENDS BrainSession
=============================================================================
