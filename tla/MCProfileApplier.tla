-------------------------- MODULE MCProfileApplier --------------------------
(* Instances of ProfileApplier for TLC: its constants are small numbers,   *)
(* given in the configurations.                                            *)
EXTENDS ProfileApplier
=============================================================================
