------------------------------ MODULE Listing -------------------------------
(***************************************************************************)
(* How a list of images is answered: ListImagesRequest, its key in the     *)
(* list cache, the page the repository reads, the count the adapter adds,  *)
(* and what listImagesHandler makes of it.                                 *)
(*                                                                         *)
(* The table of images is a set of records [id, at, tags]; ORDER BY        *)
(* uploaded_at has no tie-breaker, so an order is one of several when two  *)
(* images were uploaded at the same time.                                  *)
(***************************************************************************)
EXTENDS Integers, FiniteSets, Sequences, SequencesExt

CONSTANTS
  MaxLimit,      \* the limit of PaginationParams.Validate: 50
  HandlerPageSize, \* the page size the handler asks for: 100
  MaxPageSize,   \* the largest page size a request may ask for: 100
  NoText,         \* the empty text
  Parts          \* of each text a filter may be: what is between its commas

ASSUME ListingAssumption ==
  /\ MaxLimit \in Nat \ {0} /\ MaxPageSize \in Nat /\ HandlerPageSize \in MaxLimit..MaxPageSize
  /\ NoText \in DOMAIN Parts /\ Parts[NoText] = <<NoText>>

Least(a, b) == IF a < b THEN a ELSE b
CeilDiv(a, b) == (a + b - 1) \div b

-----------------------------------------------------------------------------
(* ListImagesRequest *)

ListRequest(page, pageSize, tags, matchAll) ==
  [page |-> page, pageSize |-> pageSize, tags |-> tags, matchAll |-> matchAll]

\* Mutated form: pages counted from zero.
GetOffsetFromZero(req) == req.page * req.pageSize

GetOffset(req) == (req.page - 1) * req.pageSize

-----------------------------------------------------------------------------
(* generateListCacheKey *)

\* Texts without a comma.
Whole == {t \in DOMAIN Parts : Parts[t] = <<t>>}

\* strings.Join(tags, ","), split at its commas: such texts are their own parts.
Joined(tags) ==
  CASE tags = <<>> -> <<NoText>>
    [] tags # <<>> /\ ToSet(tags) \subseteq Whole -> tags
    [] OTHER -> FlattenSeq([k \in DOMAIN tags |-> Parts[tags[k]]])

\* Mutated form: match_all is not part of the key.
KeyWithoutMode(req) == <<req.page, req.pageSize, Joined(req.tags)>>

generateListCacheKey(req) == <<req.page, req.pageSize, Joined(req.tags), req.matchAll>>

-----------------------------------------------------------------------------
(* image_repository.go *)

\* Validate clamps the repository's copy of the parameters.
ClampedLimit(limit) == IF limit <= 0 \/ limit > MaxLimit THEN MaxLimit ELSE limit
ClampedOffset(offset) == IF offset < 0 THEN 0 ELSE offset

\* The orders ORDER BY uploaded_at DESC may give a set of images.
NewestFirst(images) ==
  {s \in SetToSeqs(images) : \A i, j \in DOMAIN s : i < j => s[i].at >= s[j].at}

\* LIMIT and OFFSET.
Window(s, limit, offset) ==
  SubSeq(s, ClampedOffset(offset) + 1,
            Least(Len(s), ClampedOffset(offset) + ClampedLimit(limit)))

\* The tags come from a second query.
GetWithTags(images, limit, offset) ==
  {Window(s, limit, offset) : s \in NewestFirst(images)}

\* GROUP BY ... HAVING COUNT(DISTINCT t.name) = len(tags), or a plain join.
Matches(image, tags, matchAll) ==
  LET found == image.tags \cap ToSet(tags) IN
  IF matchAll THEN found # {} /\ Cardinality(found) = Len(tags) ELSE found # {}

\* The images come without their tags.
GetByTags(images, tags, matchAll, limit, offset) ==
  {[i \in DOMAIN w |-> [w[i] EXCEPT !.tags = {}]] :
     w \in {Window(s, limit, offset) :
              s \in NewestFirst({m \in images : Matches(m, tags, matchAll)})}}

-----------------------------------------------------------------------------
(* ImageRepositoryAdapter.List and listImagesHandler *)

Response(req, list, total) ==
  [images |-> list, totalCount |-> total,
   totalPages |-> IF req.pageSize <= 0 THEN 0 ELSE CeilDiv(total, req.pageSize)]

\* With tags the count is a guess from the page; without, a COUNT(*).
List(images, req) ==
  IF req.tags # <<>>
  THEN {Response(req, w, IF Len(w) = req.pageSize THEN req.pageSize * req.page ELSE Len(w)) :
          w \in GetByTags(images, req.tags, req.matchAll, req.pageSize, GetOffset(req))}
  ELSE {Response(req, w, Cardinality(images)) :
          w \in GetWithTags(images, req.pageSize, GetOffset(req))}

\* The handler asks for one page, whatever the client says,
HandlerRequest(tags, matchAll) == ListRequest(1, HandlerPageSize, tags, matchAll)

\* and reports its length.
getImagesFromService(list) == [images |-> list.images, total_count |-> Len(list.images)]

=============================================================================
