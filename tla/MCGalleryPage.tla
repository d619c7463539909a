--------------------------- MODULE MCGalleryPage ----------------------------
(* A gallery of three images and a limit of two of them, with two tags; the  *)
(* page may also be opened as /gallery?tags= and as /gallery?tags=a,b.       *)
EXTENDS GalleryPage, TLC

CONSTANTS a, b, ab, blank

MCTagsOf == <<{a}, {a, b}, {b}>>
MCParts == a :> <<a>> @@ b :> <<b>> @@ ab :> <<a, b>> @@ blank :> <<blank>>
MCURLFilters ==
  {[tags |-> <<>>, matchAll |-> FALSE], [tags |-> <<a, b>>, matchAll |-> TRUE],
   [tags |-> <<blank>>, matchAll |-> FALSE], [tags |-> <<ab>>, matchAll |-> FALSE]}
=============================================================================
