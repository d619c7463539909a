----------------------------- MODULE ImageCache -----------------------------
(***************************************************************************)
(* The read path of the image service: single images and lists are cached  *)
(* aside in Valkey with a TTL.  Web requests and worker jobs read and      *)
(* write concurrently; every write changes the database first and then     *)
(* deletes what it may have made stale, best effort.                       *)
(*                                                                         *)
(* A cache key is an image (`image:<id>') or a list request                *)
(* (`image_list:<page, size, tags>'); a cached value is the set of         *)
(* <<image, status>> pairs it shows.                                       *)
(***************************************************************************)
EXTENDS Naturals, Sequences

CONSTANTS
  Images,
  Lists,       \* list requests
  Readers,     \* concurrent GetImage and ListImages calls
  Writers,     \* concurrent CreateImage, DeleteImage calls and status writes
  MaxWrites,   \* bound: writes to the database
  MaxFailures  \* bound: failed cache commands and writers that die

ASSUME KeysAssumption == Images \cap Lists = {}
ASSUME BoundsAssumption == MaxWrites \in Nat /\ MaxFailures \in Nat

VARIABLES
  db,        \* per image: its status, "none" before its row, "deleted" after
  cache,     \* the cached keys, each with its value
  reading,   \* per reader: the call in progress, if any
  writing,   \* per writer: the call in progress, if any
  excused,   \* history: keys whose staleness no later step is bound to end
  writes, failures

vars == <<db, cache, reading, writing, excused, writes, failures>>

-----------------------------------------------------------------------------
Statuses == {"pending", "processing", "ready", "failed"}
Keys == Images \cup Lists

\* What a read of the database shows for key k.
Covered(k) == IF k \in Images THEN {k} ELSE Images

View(k) == {<<i, db[i]>> : i \in {j \in Covered(k) : db[j] \in Statuses}}

Stale(k) == k \in DOMAIN cache /\ cache[k] # View(k)

Put(k, v) == [x \in DOMAIN cache \cup {k} |-> IF x = k THEN v ELSE cache[x]]
Drop(K) == [x \in DOMAIN cache \ K |-> cache[x]]

Init ==
  /\ db = [i \in Images |-> "none"]
  /\ cache = [k \in {} |-> {}]
  /\ reading = [r \in Readers |-> {}]
  /\ writing = [w \in Writers |-> {}]
  /\ excused = {} /\ writes = 0 /\ failures = 0

Fails == failures < MaxFailures /\ failures' = failures + 1

-----------------------------------------------------------------------------
(* GetImage and ListImages.  A hit changes nothing. *)

Miss(r, k) ==
  /\ reading[r] = {}
  /\ k \notin DOMAIN cache
  /\ reading' = [reading EXCEPT ![r] = {[key |-> k, step |-> "missed", value |-> {}]}]
  /\ UNCHANGED <<db, cache, writing, excused, writes, failures>>

\* GetByID or List; an image without a row is an error and caches nothing.
Query(r) ==
  /\ \E c \in reading[r] :
       /\ c.step = "missed"
       /\ reading' = [reading EXCEPT ![r] =
            IF c.key \in Images /\ View(c.key) = {} THEN {}
            ELSE {[c EXCEPT !.step = "queried", !.value = View(c.key)]}]
  /\ UNCHANGED <<db, cache, writing, excused, writes, failures>>

\* SetImage or SetImageList, however old what was read is by now.
Fill(r) ==
  /\ \E c \in reading[r] :
       /\ c.step = "queried"
       /\ cache' = Put(c.key, c.value)
       /\ excused' = IF c.value = View(c.key) THEN excused \ {c.key}
                     ELSE excused \cup {c.key}
  /\ reading' = [reading EXCEPT ![r] = {}]
  /\ UNCHANGED <<db, writing, writes, failures>>

\* The cache command failed (its error is ignored) or the request was cut.
ReadCut(r) ==
  /\ reading[r] # {}
  /\ Fails
  /\ reading' = [reading EXCEPT ![r] = {}]
  /\ UNCHANGED <<db, cache, writing, excused, writes>>

-----------------------------------------------------------------------------
(* Writes.  `todo' holds the cache commands that are to follow: KEYS and DEL *)
(* for the lists, DEL for the image.                                         *)

Write(w, i, status, todo) ==
  /\ writing[w] = {}
  /\ writes < MaxWrites /\ writes' = writes + 1
  /\ db' = [db EXCEPT ![i] = status]
  /\ writing' = [writing EXCEPT ![w] = {[image |-> i, todo |-> todo, found |-> {}]}]
  /\ UNCHANGED <<cache, reading, excused, failures>>

\* CreateImage: handlePostCreation.
Create(w, i) ==
  db[i] = "none" /\ Write(w, i, "pending", <<"keys", "lists">>)

\* Mutated form: the adapter invalidates the lists only.
StatusWriteListsOnly(w, i) ==
  /\ db[i] \in Statuses
  /\ \E status \in Statuses \ {"pending"} : Write(w, i, status, <<"keys", "lists">>)

\* UpdateStatus and CompleteProcessing of the adapter: invalidateCaches.
StatusWrite(w, i) ==
  /\ db[i] \in Statuses
  /\ \E status \in Statuses \ {"pending"} :
       Write(w, i, status, <<"keys", "lists", "image">>)

\* DeleteImage: handlePostDeletion.
Delete(w, i) ==
  db[i] \in Statuses /\ Write(w, i, "deleted", <<"image", "keys", "lists">>)

Advance(w, c) ==
  writing' = [writing EXCEPT ![w] = IF c.todo = <<>> THEN {} ELSE {c}]

\* InvalidateImageLists, first half: KEYS image_list:*.
FindLists(w) ==
  /\ \E c \in writing[w] :
       /\ Head(c.todo) = "keys"
       /\ Advance(w, [c EXCEPT !.todo = Tail(@), !.found = DOMAIN cache \cap Lists])
  /\ UNCHANGED <<db, cache, reading, excused, writes, failures>>

\* Second half: DEL of the keys found.
DropLists(w) ==
  /\ \E c \in writing[w] :
       /\ Head(c.todo) = "lists"
       /\ cache' = Drop(c.found)
       /\ excused' = excused \ c.found
       /\ Advance(w, [c EXCEPT !.todo = Tail(@)])
  /\ UNCHANGED <<db, reading, writes, failures>>

DropImage(w) ==
  /\ \E c \in writing[w] :
       /\ Head(c.todo) = "image"
       /\ cache' = Drop({c.image})
       /\ excused' = excused \ {c.image}
       /\ Advance(w, [c EXCEPT !.todo = Tail(@)])
  /\ UNCHANGED <<db, reading, writes, failures>>

\* The keys a command of call c was to delete.
Spared(c, command) ==
  CASE command = "keys" -> Lists
    [] command = "lists" -> c.found
    [] command = "image" -> {c.image}

\* A failed KEYS skips its DEL; the error of either, or of the DEL of the
\* image, is ignored and the next command follows.
CommandFails(w) ==
  /\ Fails
  /\ \E c \in writing[w] :
       LET command == Head(c.todo)
           rest == IF command = "keys" THEN Tail(Tail(c.todo)) ELSE Tail(c.todo)
       IN  /\ excused' = excused \cup Spared(c, command)
           /\ Advance(w, [c EXCEPT !.todo = rest])
  /\ UNCHANGED <<db, cache, reading, writes>>

\* The process dies, or the request context is canceled, after the write.
WriterDies(w) ==
  /\ writing[w] # {}
  /\ Fails
  /\ excused' = excused \cup
       UNION {UNION {Spared(c, c.todo[n]) : n \in 1..Len(c.todo)} : c \in writing[w]}
  /\ writing' = [writing EXCEPT ![w] = {}]
  /\ UNCHANGED <<db, cache, reading, writes>>

\* Mutated form: the entry of an image has no TTL.
ExpireListsOnly(k) ==
  /\ k \in DOMAIN cache \cap Lists
  /\ cache' = Drop({k})
  /\ excused' = excused \ {k}
  /\ UNCHANGED <<db, reading, writing, writes, failures>>

\* The TTL given to SetImage and SetImageList.
Expire(k) ==
  /\ k \in DOMAIN cache
  /\ cache' = Drop({k})
  /\ excused' = excused \ {k}
  /\ UNCHANGED <<db, reading, writing, writes, failures>>

-----------------------------------------------------------------------------
ReadStep(r) == Query(r) \/ Fill(r)
Invalidate(w) == FindLists(w) \/ DropLists(w) \/ DropImage(w)

Next ==
  \/ \E r \in Readers : ReadStep(r) \/ ReadCut(r) \/ \E k \in Keys : Miss(r, k)
  \/ \E w \in Writers :
       \/ Invalidate(w) \/ CommandFails(w) \/ WriterDies(w)
       \/ \E i \in Images : Create(w, i) \/ StatusWrite(w, i) \/ Delete(w, i)
  \/ \E k \in Keys : Expire(k)

Spec == Init /\ [][Next]_vars

\* Calls in progress go on, and a TTL runs out.
FairSpec ==
  /\ Spec
  /\ \A r \in Readers : WF_vars(ReadStep(r))
  /\ \A w \in Writers : WF_vars(Invalidate(w))
  /\ \A k \in Keys : WF_vars(Expire(k))

-----------------------------------------------------------------------------
Reading == [key : Keys, step : {"missed", "queried"}, value : SUBSET (Images \X Statuses)]
Writing == [image : Images, todo : Seq({"keys", "lists", "image"}), found : SUBSET Lists]

TypeOK ==
  /\ db \in [Images -> Statuses \cup {"none", "deleted"}]
  /\ DOMAIN cache \subseteq Keys
  /\ \A k \in DOMAIN cache : cache[k] \subseteq Covered(k) \X Statuses
  /\ \A r \in Readers : \A c \in reading[r] : c \in Reading /\ reading[r] = {c}
  /\ \A w \in Writers : \A c \in writing[w] :
       c \in Writing /\ c.todo # <<>> /\ writing[w] = {c}
  /\ excused \subseteq Keys
  /\ writes \in 0..MaxWrites /\ failures \in 0..MaxFailures

\* Some write in progress has yet to delete key k.
AboutToDrop(k) ==
  \E w \in Writers : \E c \in writing[w] : \E n \in 1..Len(c.todo) :
    \/ c.todo[n] = "image" /\ k = c.image
    \/ c.todo[n] = "keys" /\ k \in Lists
    \/ c.todo[n] = "lists" /\ k \in c.found

(***************************************************************************)
(* Every write invalidates all it made stale: a stale entry is about to be *)
(* deleted by the write that made it stale, or it is one of the two kinds  *)
(* the design accepts: its deletion failed, or a reader that had queried   *)
(* before the write filled it in afterwards.                               *)
(***************************************************************************)
StaleHasACause == \A k \in Keys : Stale(k) => AboutToDrop(k) \/ k \in excused

(***************************************************************************)
(* "A stale cached list expires within its TTL" (invalidateCaches):        *)
(* once the database stays as it is, the cache comes to show it and goes   *)
(* on showing it, whatever deletion failed and however late a reader that  *)
(* had queried before the last write fills in its entry.                   *)
(***************************************************************************)
CacheConverges ==
  <>[][db' = db]_vars => <>[](\A k \in Keys : ~Stale(k))

(***************************************************************************)
(* The worker's invalidation is wired so that "a list or single image      *)
(* cached mid-processing does not stay stale until its TTL expires"        *)
(* (Container): once every call has ended, and no command failed, nothing  *)
(* cached is stale.  The code does not keep this, see README, section 3.   *)
(***************************************************************************)
FreshAtRest ==
  /\ \A r \in Readers : reading[r] = {}
  /\ \A w \in Writers : writing[w] = {}
  /\ failures = 0
  => \A k \in Keys : ~Stale(k)

=============================================================================
