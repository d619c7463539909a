----------------------------- MODULE MCSettings ------------------------------
(* Small instances of Settings for TLC: the constants are in the configurations. *)
EXTENDS Settings
=============================================================================
