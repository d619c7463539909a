---------------------------- MODULE MCImageCache -----------------------------
(* Small instances of ImageCache for TLC: the constants are in the configurations. *)
EXTENDS ImageCache
=============================================================================
