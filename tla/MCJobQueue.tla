----------------------------- MODULE MCJobQueue ------------------------------
(* Small instances of JobQueue for TLC: the constants are in the configurations. *)
EXTENDS JobQueue
=============================================================================
