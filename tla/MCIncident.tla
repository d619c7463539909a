----------------------------- MODULE MCIncident ------------------------------
(* Small instances of Incident for TLC: the constants are in the configurations. *)
EXTENDS Incident
=============================================================================
