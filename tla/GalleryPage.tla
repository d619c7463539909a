---------------------------- MODULE GalleryPage -----------------------------
(***************************************************************************)
(* The gallery page in a browser, and the list, upload and delete requests *)
(* it makes.  Requests overlap: the page keeps its filters in variables,   *)
(* and what it shows is whatever answer came last.  Lists come from the    *)
(* list cache when it has them; a list read before a change may be put     *)
(* there after it, and stays until it expires (module ImageCache).         *)
(*                                                                         *)
(* Three requests fill the gallery: a refresh carries the filters, and     *)
(* fills the filter panel too; the load when the page opens or an upload   *)
(* is done, and the reload after a delete, carry none.                     *)
(***************************************************************************)
EXTENDS Listing, Selection

CONSTANTS
  KnownTags,     \* names of tags
  Ids,           \* images there may ever be: 1..n, uploaded in this order
  TagsOf,        \* the tags an image is uploaded with
  Stored,        \* images that are there when the page opens: 1..k
  URLFilters,    \* filters the page may be opened with, any texts
  MaxRequests    \* bound: requests the page makes

Texts == DOMAIN Parts

ASSUME GalleryAssumption ==
  /\ IsFiniteSet(Ids) /\ Ids = 1..Cardinality(Ids)
  /\ Stored \subseteq Ids /\ Stored = 1..Cardinality(Stored)
  /\ TagsOf \in [Ids -> SUBSET KnownTags]
  /\ KnownTags \subseteq Whole \ {NoText}        \* TagName: [a-z0-9-]
  /\ \A u \in URLFilters : u.tags \in Seq(Texts) /\ u.matchAll \in BOOLEAN
  /\ MaxRequests \in Nat \ {0, 1}

VARIABLES
  rows,       \* ids in the images table
  next,       \* id of the next upload
  filters,    \* activeTagFilters
  matchAll,   \* matchAllTags
  cached,     \* the list cache: lists, each under the key of its filters
  requests,   \* requests in flight
  issued,     \* requests made
  gallery,    \* the answer the gallery shows: [n, cards, of]
  panel,      \* the answer the filter panel shows: [n, tags, matchAll, count]
  url,        \* filters in the address bar
  lastRefresh \* history: number of the last refresh asked for

db == <<rows, next>>
page == <<filters, matchAll, gallery, panel, url, lastRefresh>>
galleryVars == <<db, cached, page, requests, issued>>

Image(i) == [id |-> i, at |-> i, tags |-> TagsOf[i]]
ImagesOf(R) == {Image(i) : i \in R}

\* What imageRepo.List may return; history: the rows it read and the filters.
ListsRead(tags, all) ==
  {[images |-> list.images, rows |-> rows, tags |-> tags, matchAll |-> all] :
     list \in List(ImagesOf(rows), HandlerRequest(tags, all))}

NoList == [images |-> <<>>, rows |-> {}, tags |-> <<>>, matchAll |-> FALSE]

\* The status goes from "sent", for lists over "read", to "answered" or "failed".
NewRequest(n, kind, tags, all, id) ==
  [n |-> n, kind |-> kind, tags |-> tags, matchAll |-> all, id |-> id,
   status |-> "sent", list |-> NoList]

\* What the panel shows of a refresh: nothing when it carried no filters.
NoPanel == [n |-> 0, tags |-> <<>>, matchAll |-> FALSE, count |-> 0]

\* loadFiltersFromURL, and the load of the gallery element.
GalleryInit ==
  /\ rows = Stored /\ next = Cardinality(Stored) + 1
  /\ url \in URLFilters
  /\ filters = url.tags /\ matchAll = url.matchAll
  /\ cached = {}
  /\ gallery = [n |-> 0, cards |-> <<>>, of |-> <<>>] /\ panel = NoPanel
  /\ IF filters = <<>>
     THEN /\ requests = {NewRequest(1, "load", <<>>, FALSE, 0)}
          /\ issued = 1 /\ lastRefresh = 0
     ELSE /\ requests = {NewRequest(1, "refresh", filters, matchAll, 0),
                         NewRequest(2, "load", <<>>, FALSE, 0)}
          /\ issued = 2 /\ lastRefresh = 1

-----------------------------------------------------------------------------
(* The user *)

Send(kind, tags, all, id) ==
  /\ issued < MaxRequests /\ issued' = issued + 1
  /\ requests' = requests \cup {NewRequest(issued + 1, kind, tags, all, id)}

\* refreshGalleryWithFilters: match_all goes along only with filters.
Refresh ==
  /\ Send("refresh", filters', matchAll' /\ filters' # <<>>, 0)
  /\ lastRefresh' = issued'

\* The tags on the cards are buttons; a card of a filtered list has none.
filterByTag(tag) ==
  /\ \E i \in DOMAIN gallery.cards : tag \in gallery.cards[i].tags
  /\ tag \notin ToSet(filters)
  /\ filters' = Append(filters, tag) /\ UNCHANGED matchAll /\ Refresh
  /\ UNCHANGED <<db, cached, gallery, panel, url>>

\* A chip of the panel, which may be that of older filters.
removeTagFilter(tag) ==
  /\ tag \in ToSet(panel.tags)
  /\ filters' = Pick(filters, {k \in DOMAIN filters : filters[k] # tag})
  /\ UNCHANGED matchAll /\ Refresh
  /\ UNCHANGED <<db, cached, gallery, panel, url>>

clearFilters ==
  /\ panel.tags # <<>>
  /\ filters' = <<>> /\ UNCHANGED matchAll /\ Refresh
  /\ UNCHANGED <<db, cached, gallery, panel, url>>

\* Mutated form: the mode changes, the gallery does not.
toggleQuietly ==
  /\ panel.tags # <<>> /\ issued < MaxRequests /\ issued' = issued + 1
  /\ matchAll' = ~matchAll
  /\ UNCHANGED <<db, cached, filters, gallery, panel, url, requests, lastRefresh>>

toggleMatchMode ==
  /\ panel.tags # <<>>
  /\ matchAll' = ~matchAll /\ UNCHANGED filters /\ Refresh
  /\ UNCHANGED <<db, cached, gallery, panel, url>>

Upload ==
  /\ Send("upload", <<>>, FALSE, 0)
  /\ UNCHANGED <<db, cached, page>>

deleteImage ==
  /\ \E i \in DOMAIN gallery.cards : Send("delete", <<>>, FALSE, gallery.cards[i].id)
  /\ UNCHANGED <<db, cached, page>>

-----------------------------------------------------------------------------
(* The server *)

\* htmx makes one request at a time for the gallery element and for the form.
Turn(r) ==
  r.kind \in {"load", "upload"} => \A q \in requests : q.kind = r.kind => r.n <= q.n

Becomes(r, status, list) ==
  requests' = (requests \ {r}) \cup {[r EXCEPT !.status = status, !.list = list]}

KeyOf(q) == generateListCacheKey(HandlerRequest(q.tags, q.matchAll))
IsList(r) == r.kind \in {"load", "refresh", "reload"}

\* ListImages: the lookup finds a list;
CacheHit(r) ==
  /\ r.status = "sent" /\ Turn(r) /\ IsList(r)
  /\ \E list \in cached : KeyOf(list) = KeyOf(r) /\ Becomes(r, "answered", list)
  /\ UNCHANGED <<db, cached, page, issued>>

\* or it found none, or failed, and the database is read,
QueryList(r) ==
  /\ r.status = "sent" /\ Turn(r) /\ IsList(r)
  /\ \E list \in ListsRead(r.tags, r.matchAll) : Becomes(r, "read", list)
  /\ UNCHANGED <<db, cached, page, issued>>

\* and the list is put into the cache; an error of that is ignored.
CacheList(r) ==
  /\ r.status = "read" /\ Becomes(r, "answered", r.list)
  /\ \/ cached' = {list \in cached : KeyOf(list) # KeyOf(r)} \cup {r.list}
     \/ UNCHANGED cached
  /\ UNCHANGED <<db, page, issued>>

listImagesHandler(r) == CacheHit(r) \/ QueryList(r) \/ CacheList(r)

\* KEYS and DEL, their error ignored.  A list put between the change and them is
\* not kept, as if it had not been put.
InvalidateImageLists == cached' = {} \/ UNCHANGED cached

\* A failed change may have been made: what failed can be its reply.
uploadImagesHandler(r) ==
  /\ r.status = "sent" /\ Turn(r) /\ r.kind = "upload" /\ next \in Ids
  /\ rows' = rows \cup {next} /\ next' = next + 1
  /\ \/ Becomes(r, "answered", NoList) /\ InvalidateImageLists
     \/ Becomes(r, "failed", NoList) /\ UNCHANGED cached
  /\ UNCHANGED <<page, issued>>

\* 404 when the image is gone already.
deleteImageHandler(r) ==
  /\ r.status = "sent" /\ r.kind = "delete"
  /\ rows' = rows \ {r.id}
  /\ \/ r.id \in rows /\ Becomes(r, "answered", NoList) /\ InvalidateImageLists
     \/ Becomes(r, "failed", NoList) /\ UNCHANGED cached
  /\ UNCHANGED <<next, page, issued>>

Fail(r) ==
  /\ r.status = "sent" /\ Turn(r) /\ Becomes(r, "failed", NoList)
  /\ UNCHANGED <<db, cached, page, issued>>

\* Its TTL is over, or another write of the server invalidates it.
Expire(list) ==
  /\ cached' = cached \ {list}
  /\ UNCHANGED <<db, page, requests, issued>>

-----------------------------------------------------------------------------
(* The answers, in any order.  A failed one changes nothing that is modelled. *)

Arrived(r) == r \in requests /\ r.status = "answered"

Fill(r) ==
  gallery' = [n |-> r.n, cards |-> getImagesFromService(r.list).images, of |-> r.list.tags]

RefreshArrives(r) ==
  /\ Arrived(r) /\ r.kind = "refresh" /\ requests' = requests \ {r}
  /\ Fill(r)
  /\ panel' = IF r.tags = <<>> THEN [NoPanel EXCEPT !.n = r.n]
              ELSE [n |-> r.n, tags |-> r.tags, matchAll |-> r.matchAll,
                    count |-> getImagesFromService(r.list).total_count]
  /\ url' = [tags |-> filters, matchAll |-> matchAll /\ filters # <<>>]
  /\ UNCHANGED <<db, cached, filters, matchAll, issued, lastRefresh>>

LoadArrives(r) ==
  /\ Arrived(r) /\ r.kind \in {"load", "reload"} /\ requests' = requests \ {r}
  /\ Fill(r)
  /\ UNCHANGED <<db, cached, filters, matchAll, panel, url, issued, lastRefresh>>

\* The load that an upload triggers, the reload that a delete makes.
ChangeArrives(r) ==
  /\ Arrived(r) /\ r.kind \in {"upload", "delete"} /\ issued < MaxRequests
  /\ requests' = (requests \ {r}) \cup
       {NewRequest(issued + 1, IF r.kind = "upload" THEN "load" ELSE "reload", <<>>, FALSE, 0)}
  /\ issued' = issued + 1
  /\ UNCHANGED <<db, cached, page>>

FailureArrives(r) ==
  /\ r \in requests /\ r.status = "failed" /\ requests' = requests \ {r}
  /\ UNCHANGED <<db, cached, page, issued>>

GalleryNext ==
  \/ \E tag \in Texts : filterByTag(tag) \/ removeTagFilter(tag)
  \/ clearFilters \/ toggleMatchMode \/ Upload \/ deleteImage
  \/ \E r \in requests :
       \/ listImagesHandler(r) \/ uploadImagesHandler(r) \/ deleteImageHandler(r) \/ Fail(r)
       \/ RefreshArrives(r) \/ LoadArrives(r) \/ ChangeArrives(r) \/ FailureArrives(r)
  \/ \E list \in cached : Expire(list)

GallerySpec == GalleryInit /\ [][GalleryNext]_galleryVars

-----------------------------------------------------------------------------
(* Properties *)

\* Every request has a number of its own, and what is shown is the answer to one.
GalleryTypeOK ==
  /\ rows \subseteq Ids /\ next \in Nat \ {0} /\ matchAll \in BOOLEAN
  /\ issued \in 0..MaxRequests /\ lastRefresh \in 0..issued
  /\ {gallery.n, panel.n} \subseteq 0..issued
  /\ \A r \in requests :
       /\ r.n \in 1..issued /\ \A q \in requests : q.n = r.n => q = r
       /\ r.kind \in {"load", "refresh", "reload", "upload", "delete"}
       /\ r.status \in {"sent", "read", "answered", "failed"}

CardIds(cards) == {cards[k].id : k \in DOMAIN cards}

\* What a filter asks of an image: all of its tags, or any of them.
Asks(tags, all, i) ==
  CASE tags = <<>> -> TRUE
    [] tags # <<>> /\ all -> ToSet(tags) \subseteq TagsOf[i]
    [] OTHER -> ToSet(tags) \cap TagsOf[i] # {}

Wanted(R, tags, all) == {i \in R : Asks(tags, all, i)}

\* Filters that are names of tags.  Others, as in /gallery?tags=, share keys of
\* the list cache with lists of other filters: see README, section 3.
Ordinary(tags) == ToSet(tags) \subseteq KnownTags

\* A list is the newest of the images its filters ask for, as they were when it
\* was read: as many of them as the limit allows, counted, and nothing twice.
NewestMatching(list) ==
  LET shown == CardIds(list.images)
      wanted == Wanted(list.rows, list.tags, list.matchAll)
  IN /\ shown \subseteq wanted
     /\ getImagesFromService(list).total_count = Cardinality(shown)
     /\ Cardinality(shown) = Least(MaxLimit, Cardinality(wanted))
     /\ \A i \in shown, j \in wanted \ shown : i > j

\* Whatever requests, changes and invalidations overlap: the list a request is
\* answered with, read for it or found in the list cache, is the newest images
\* that its own filters ask for, at the time some request read it.  It takes
\* HAVING COUNT and the joins of GetByTags, the window and the clamp of the page
\* size, and a key that tells lists apart: it does for names of tags.
ListIsNewestMatching ==
  \A r \in requests : IsList(r) /\ Arrived(r) =>
    /\ r.list.matchAll = r.matchAll
    /\ Ordinary(r.tags) /\ Ordinary(r.list.tags) => r.list.tags = r.tags
    /\ IsInjective(r.list.tags) => NewestMatching(r.list)

\* The same without the condition on the filters.
ListsAreOfTheirFilters ==
  \A r \in requests : IsList(r) /\ Arrived(r) => r.list.tags = r.tags

\* The pages of the unfiltered list, as many as the response announces, show
\* every image once; but not when the page size passes the repository's limit
\* and there are more images than that: the offset goes on by the page size,
\* the window by the limit, and the images between are on no page.
PagesCover ==
  \A size \in 1..MaxPageSize :
    LET Page(p) == CHOOSE r \in List(ImagesOf(rows), ListRequest(p, size, <<>>, FALSE)) : TRUE
        pages == 1..Page(1).totalPages
        Shown(p) == CardIds(Page(p).images)
    IN /\ (UNION {Shown(p) : p \in pages} = rows)
            <=> (size <= MaxLimit \/ Cardinality(rows) <= MaxLimit)
       /\ \A p, q \in pages : p # q => Shown(p) \cap Shown(q) = {}

\* However requests overlap: when the last refresh that was asked for is the
\* last one shown, the panel and the address bar hold the filters of the page's
\* variables; when the gallery shows what the panel shows, the panel counts the
\* cards; and when the gallery shows the last refresh, every card matches its
\* filters, if they and those the list was read for are names of tags.  (An older
\* refresh that comes later, or a load, undoes the premises.)
SettledPageShowsItsFilters ==
  /\ panel.n = lastRefresh =>
       /\ panel.tags = filters
       /\ filters # <<>> => panel.matchAll = matchAll
       /\ lastRefresh # 0 => url = [tags |-> filters, matchAll |-> matchAll /\ filters # <<>>]
  /\ gallery.n = panel.n /\ panel.tags # <<>> => panel.count = Len(gallery.cards)
  /\ gallery.n = lastRefresh /\ IsInjective(filters)
     /\ Ordinary(filters) /\ Ordinary(gallery.of) =>
       \A k \in DOMAIN gallery.cards : Asks(filters, matchAll, gallery.cards[k].id)

=============================================================================
