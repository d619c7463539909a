---------------------------- MODULE MCLoadClient -----------------------------
(* Small instances of LoadClient for TLC: the constants are in the configuration. *)
EXTENDS LoadClient
=============================================================================
