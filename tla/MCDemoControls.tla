--------------------------- MODULE MCDemoControls ----------------------------
(* Small instances of DemoControls for TLC: the constants are in the configurations. *)
EXTENDS DemoControls
=============================================================================
