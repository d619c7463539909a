--------------------------- MODULE MCImagePipeline ---------------------------
(* Small instances of ImagePipeline for TLC. *)
EXTENDS ImagePipeline, TLC

CONSTANT i1

\* A strip exactly as much longer than high as the box is wide: rounding decides
\* whether its thumbnail is empty, and so whether a PNG of it comes out.
Strip == [size |-> 5, header |-> TRUE, body |-> TRUE,
          format |-> "png", width |-> 15680, height |-> 49]

MCContent == i1 :> Strip
=============================================================================
