----------------------------- MODULE Thumbnail -----------------------------
(***************************************************************************)
(* What the worker makes of an image's bytes: the checks of fetch and      *)
(* decode (Processor) and the size of the thumbnail (ImageProcessor).      *)
(*                                                                         *)
(* The code scales in float64.  A scale is a fraction <<num, den>> here;   *)
(* where the exact product is an integer the floating-point one may come   *)
(* out just below it (49 * (320.0 / 15680.0) < 1), and int() then yields   *)
(* the integer before.  No other product of image sizes comes that close.  *)
(***************************************************************************)
EXTENDS Integers

CONSTANTS
  maxBytes,    \* download cap
  maxPixels,   \* decode guard
  thumbSize    \* side of the square box

ASSUME ThumbnailAssumption ==
  maxBytes \in Nat /\ maxPixels \in Nat /\ thumbSize \in Nat \ {0}

Positive == Nat \ {0}

\* An object's bytes: its header and its body may decode or not.
Bytes == [size : Nat, header : BOOLEAN, body : BOOLEAN,
          format : {"jpeg", "png", "gif", "webp"}, width : Positive, height : Positive]

Fetched(b) == b.size <= maxBytes
Decoded(b) == b.header /\ b.width * b.height <= maxPixels

\* Mutated form: the larger of the two factors.
ScaleToFill(width, height, maxWidth, maxHeight) ==
  LET s == IF maxHeight * width < maxWidth * height THEN <<maxWidth, width>> ELSE <<maxHeight, height>>
  IN  IF s[1] > s[2] THEN <<1, 1>> ELSE s

\* The smaller of the two factors that fit one side, at most 1.
Scale(width, height, maxWidth, maxHeight) ==
  LET s == IF maxHeight * width < maxWidth * height THEN <<maxHeight, height>> ELSE <<maxWidth, width>>
  IN  IF s[1] > s[2] THEN <<1, 1>> ELSE s

\* The values int(float64(n) * scale) can have.
Truncated(n, s) ==
  {(n * s[1]) \div s[2]} \cup
  {k \in {((n * s[1]) \div s[2]) - 1} : s[1] # s[2] /\ (n * s[1]) % s[2] = 0}

\* The sizes GenerateThumbnail may produce.
Sizes(width, height, maxWidth, maxHeight) ==
  LET s == Scale(width, height, maxWidth, maxHeight)
  IN  [width : Truncated(width, s), height : Truncated(height, s)]

\* The PNG encoder refuses an empty image, those of GIF and JPEG write one.
Encodes(format, d) == format = "png" => d.width > 0 /\ d.height > 0

ThumbnailSizes(b) == Sizes(b.width, b.height, thumbSize, thumbSize)

\* process: a thumbnail can come out; every error but the store's is permanent.
MayRender(b) ==
  /\ Fetched(b) /\ Decoded(b) /\ b.body
  /\ \E d \in ThumbnailSizes(b) : Encodes(b.format, d)

MayReject(b) ==
  \/ ~Fetched(b) \/ ~Decoded(b) \/ ~b.body
  \/ \E d \in ThumbnailSizes(b) : ~Encodes(b.format, d)

-----------------------------------------------------------------------------
\* What a thumbnail of size d is to its original.

InBox(d, maxWidth, maxHeight) == d.width \in 0..maxWidth /\ d.height \in 0..maxHeight

NotUpscaled(d, width, height) == d.width <= width /\ d.height <= height

\* The two sides are scaled alike, to within a pixel.
Undistorted(d, width, height) ==
  LET skew == d.width * height - d.height * width
  IN  skew <= width /\ -skew <= height

\* One side is so long that the other, scaled with it, may come to nothing.
Elongated(width, height, maxWidth, maxHeight) ==
  maxWidth * height <= width \/ maxHeight * width <= height

Empty(d) == d.width = 0 \/ d.height = 0

=============================================================================
