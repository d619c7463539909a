----------------------------- MODULE CacheProofs -----------------------------
(***************************************************************************)
(* Proofs about ImageCache, for any images, list requests, concurrent      *)
(* readers and writers, and failures.                                      *)
(***************************************************************************)
EXTENDS ImageCache, TLAPS

\* What a write has left to do.
Todos ==
  {<<"keys", "lists">>, <<"lists">>, <<"image", "keys", "lists">>,
   <<"keys", "lists", "image">>, <<"lists", "image">>, <<"image">>}

WriteCalls == [image : Images, todo : Todos, found : SUBSET Lists]

Types ==
  /\ db \in [Images -> Statuses \cup {"none", "deleted"}]
  /\ DOMAIN cache \subseteq Keys
  /\ \A k \in DOMAIN cache : cache[k] \subseteq Covered(k) \X Statuses
  /\ reading \in [Readers -> SUBSET Reading]
  /\ \A r \in Readers : \A c \in reading[r] :
       reading[r] = {c} /\ c.value \subseteq Covered(c.key) \X Statuses
  /\ writing \in [Writers -> SUBSET WriteCalls]
  /\ \A w \in Writers : \A c \in writing[w] : writing[w] = {c}
  /\ excused \subseteq Keys
  /\ writes \in 0..MaxWrites /\ failures \in 0..MaxFailures

\* Nothing is cached, or about to be, of an image that has no row yet: so the
\* creation of its row, which does not delete its entry, makes none stale.
Unborn ==
  \A i \in Images : db[i] = "none" =>
    /\ i \notin DOMAIN cache
    /\ \A r \in Readers : \A c \in reading[r] : c.key = i => c.step = "missed"

CInv == Types /\ Unborn /\ StaleHasACause

-----------------------------------------------------------------------------
\* The commands of a call, and those that follow its first.
LEMMA TodoShapes ==
  ASSUME NEW t \in Todos
  PROVE  /\ t # <<>> /\ t \in Seq({"keys", "lists", "image"})
         /\ Tail(t) = <<>> \/ Tail(t) \in Todos
         /\ Head(t) \in {"keys", "lists", "image"}
         /\ Len(t) \in Nat /\ Len(t) >= 1 /\ Head(t) = t[1]
         /\ \A n \in 1..Len(t) : n = 1 \/ (n - 1 \in 1..Len(Tail(t)) /\ Tail(t)[n - 1] = t[n])
         /\ Head(t) = "keys" =>
              /\ Tail(t) # <<>> /\ 1 \in 1..Len(Tail(t)) /\ Tail(t)[1] = "lists"
              /\ Tail(Tail(t)) = <<>> \/ Tail(Tail(t)) \in Todos
              /\ \A n \in 1..Len(t) :
                   \/ t[n] \in {"keys", "lists"}
                   \/ n - 2 \in 1..Len(Tail(Tail(t))) /\ Tail(Tail(t))[n - 2] = t[n]
<1>1. CASE t = <<"keys", "lists">>
  BY <1>1 DEF Todos
<1>2. CASE t = <<"lists">>
  BY <1>2 DEF Todos
<1>3. CASE t = <<"image", "keys", "lists">>
  BY <1>3 DEF Todos
<1>4. CASE t = <<"keys", "lists", "image">>
  BY <1>4 DEF Todos
<1>5. CASE t = <<"lists", "image">>
  BY <1>5 DEF Todos
<1>6. CASE t = <<"image">>
  BY <1>6 DEF Todos
<1> QED BY <1>1, <1>2, <1>3, <1>4, <1>5, <1>6 DEF Todos

\* Call c has yet to delete key k.
Promised(c, k) ==
  \E n \in 1..Len(c.todo) :
    \/ c.todo[n] = "image" /\ k = c.image
    \/ c.todo[n] = "keys" /\ k \in Lists
    \/ c.todo[n] = "lists" /\ k \in c.found

\* A key is about to be dropped when some call has promised to delete it.
LEMMA AboutIsPromised ==
  ASSUME NEW k PROVE AboutToDrop(k) <=> \E w \in Writers : \E c \in writing[w] : Promised(c, k)
BY DEF AboutToDrop, Promised

\* An empty list has no places.
LEMMA EmptyLen == \A q : q = <<>> => 1..Len(q) = {}
  OBVIOUS

\* KEYS finds the lists that are cached; those it is to delete stay promised.
LEMMA AfterKeys ==
  ASSUME NEW c \in WriteCalls, Head(c.todo) = "keys",
         NEW d, d.todo = Tail(c.todo), d.image = c.image,
         NEW k, Promised(c, k), k \in Lists => k \in d.found
  PROVE  d.todo # <<>> /\ Promised(d, k)
<1>1. c.todo \in Todos /\ c.found \subseteq Lists
  BY DEF WriteCalls
<1>2. d.todo # <<>> /\ 1 \in 1..Len(d.todo) /\ d.todo[1] = "lists"
  BY <1>1, TodoShapes
<1>3. PICK n \in 1..Len(c.todo) :
        \/ c.todo[n] = "image" /\ k = c.image
        \/ c.todo[n] \in {"keys", "lists"} /\ k \in Lists
  BY <1>1 DEF Promised
<1>4. CASE k \in Lists
  BY <1>2, <1>4 DEF Promised
<1>5. CASE k \notin Lists
  <2>1. n - 1 \in 1..Len(d.todo) /\ d.todo[n - 1] = "image" /\ k = d.image
    BY <1>1, <1>3, <1>5, TodoShapes
  <2> QED BY <1>2, <2>1 DEF Promised
<1> QED BY <1>4, <1>5

\* Any other command deletes its keys and leaves the promises after it.
LEMMA AfterDelete ==
  ASSUME NEW c \in WriteCalls, Head(c.todo) # "keys",
         NEW d, d.todo = Tail(c.todo), d.image = c.image, d.found = c.found,
         NEW k, Promised(c, k)
  PROVE  \/ Head(c.todo) = "lists" /\ k \in c.found
         \/ Head(c.todo) = "image" /\ k = c.image
         \/ d.todo # <<>> /\ Promised(d, k)
<1>1. c.todo \in Todos
  BY DEF WriteCalls
<1>2. PICK n \in 1..Len(c.todo) :
        \/ c.todo[n] = "image" /\ k = c.image
        \/ c.todo[n] = "keys" /\ k \in Lists
        \/ c.todo[n] = "lists" /\ k \in c.found
  BY DEF Promised
<1>3. CASE n = 1
  BY <1>1, <1>2, <1>3, TodoShapes
<1>4. CASE n # 1
  <2>1. n - 1 \in 1..Len(d.todo) /\ d.todo[n - 1] = c.todo[n]
    BY <1>1, <1>4, TodoShapes
  <2>2. d.todo # <<>>
    BY <2>1, EmptyLen
  <2>3. Promised(d, k)
    BY <1>2, <2>1 DEF Promised
  <2> QED BY <2>2, <2>3
<1> QED BY <1>3, <1>4

\* A failed KEYS skips the DEL that would have followed it.
LEMMA AfterFailedKeys ==
  ASSUME NEW c \in WriteCalls, Head(c.todo) = "keys",
         NEW d, d.todo = Tail(Tail(c.todo)), d.image = c.image,
         NEW k, Promised(c, k), k \notin Lists
  PROVE  d.todo # <<>> /\ Promised(d, k)
<1>1. c.todo \in Todos /\ c.found \subseteq Lists
  BY DEF WriteCalls
<1>2. PICK n \in 1..Len(c.todo) : c.todo[n] = "image" /\ k = c.image
  BY <1>1 DEF Promised
<1>3. n - 2 \in 1..Len(d.todo) /\ d.todo[n - 2] = "image"
  BY <1>1, <1>2, TodoShapes
<1>4. d.todo # <<>>
  BY <1>3, EmptyLen
<1> QED BY <1>2, <1>3, <1>4 DEF Promised

-----------------------------------------------------------------------------
\* What a key should show is a set of images it covers, with their statuses.
LEMMA ViewType == ASSUME Types, NEW k \in Keys PROVE View(k) \subseteq Covered(k) \X Statuses
BY DEF Types, View, Covered, Keys

\* An empty cache beside an empty table.
LEMMA InitCInv == Init => CInv
<1> SUFFICES ASSUME Init PROVE CInv
  OBVIOUS
<1>1. Types
  <2>1. DOMAIN cache = {}
    BY DEF Init
  <2>2. writes \in 0..MaxWrites /\ failures \in 0..MaxFailures
    BY BoundsAssumption DEF Init
  <2> QED BY <2>1, <2>2 DEF Init, Types
<1>2. Unborn /\ StaleHasACause
  BY DEF Init, Unborn, StaleHasACause, Stale
<1> QED BY <1>1, <1>2 DEF CInv

\* A call that may be all a reader has in hand.
Sound(S) ==
  /\ S \in SUBSET Reading
  /\ \A c \in S : S = {c} /\ c.value \subseteq Covered(c.key) \X Statuses
  /\ \A c \in S : c.key \in Images /\ db[c.key] = "none" => c.step = "missed"

\* Reads up to their query, and those cut short, cache nothing.
LEMMA ReadInv ==
  ASSUME CInv, NEW r \in Readers,
         Query(r) \/ ReadCut(r) \/ \E k \in Keys : Miss(r, k)
  PROVE  CInv'
<1>1. /\ UNCHANGED <<db, cache, writing, excused, writes>>
      /\ failures' \in 0..MaxFailures
  <2>1. CASE ReadCut(r)
    BY <2>1, BoundsAssumption DEF ReadCut, Fails, CInv, Types
  <2>2. CASE Query(r) \/ \E k \in Keys : Miss(r, k)
    BY <2>2 DEF Query, Miss, CInv, Types
  <2> QED BY <2>1, <2>2
<1>2. PICK S : reading' = [reading EXCEPT ![r] = S] /\ Sound(S)
  <2>1. Sound({})
    BY DEF Sound
  <2>2. ASSUME NEW k \in Keys, Miss(r, k)
        PROVE  \E S : reading' = [reading EXCEPT ![r] = S] /\ Sound(S)
    <3> DEFINE S == {[key |-> k, step |-> "missed", value |-> {}]}
    <3>1. Sound(S)
      BY DEF Reading, Sound
    <3> QED BY <2>2, <3>1 DEF Miss
  <2>3. CASE Query(r)
    <3>1. PICK c \in reading[r] :
            reading' = [reading EXCEPT ![r] =
              IF c.key \in Images /\ View(c.key) = {} THEN {}
              ELSE {[c EXCEPT !.step = "queried", !.value = View(c.key)]}]
      BY <2>3 DEF Query
    <3>2. c \in Reading
      BY DEF CInv, Types
    <3>3. View(c.key) \subseteq Covered(c.key) \X Statuses
      BY <3>2, ViewType DEF CInv, Reading
    <3> DEFINE d == [c EXCEPT !.step = "queried", !.value = View(c.key)]
    <3>4. d \in Reading /\ d.key = c.key /\ d.value = View(c.key)
      BY <3>2, <3>3 DEF Reading, Covered, Keys
    <3>5. c.key \in Images /\ db[c.key] = "none" => View(c.key) = {}
      BY DEF View, Covered, Statuses
    <3> HIDE DEF d
    <3>6. CASE c.key \in Images /\ View(c.key) = {}
      BY <2>1, <3>1, <3>6
    <3>7. CASE ~(c.key \in Images /\ View(c.key) = {})
      <4>1. reading' = [reading EXCEPT ![r] = {d}]
        BY <3>1, <3>7 DEF d
      <4>2. Sound({d})
        BY <3>3, <3>4, <3>5, <3>7 DEF Sound
      <4> QED BY <4>1, <4>2
    <3> QED BY <3>6, <3>7
  <2>4. CASE ReadCut(r)
    BY <2>1, <2>4 DEF ReadCut
  <2> QED BY <2>2, <2>3, <2>4
<1>3. \A q \in Readers : reading'[q] = IF q = r THEN S ELSE reading[q]
  BY <1>2 DEF CInv, Types
<1>4. Types'
  <2>1. reading' \in [Readers -> SUBSET Reading]
    BY <1>2 DEF CInv, Types, Sound
  <2>2. \A q \in Readers : \A c \in reading'[q] :
          reading'[q] = {c} /\ c.value \subseteq Covered(c.key) \X Statuses
    BY <1>2, <1>3 DEF CInv, Types, Sound
  <2>3. \A k : Covered(k)' = Covered(k)
    BY DEF Covered
  <2> QED BY <1>1, <2>1, <2>2, <2>3 DEF CInv, Types
<1>5. Unborn'
  BY <1>1, <1>2, <1>3 DEF CInv, Unborn, Sound
<1>6. StaleHasACause'
  BY <1>1 DEF CInv, StaleHasACause, Stale, View, Covered, AboutToDrop
<1> QED BY <1>4, <1>5, <1>6 DEF CInv

\* A reader fills in what it queried: what a write has changed since is excused.
LEMMA FillInv == ASSUME CInv, NEW r \in Readers, Fill(r) PROVE CInv'
<1>1. PICK c \in reading[r] :
        /\ c.step = "queried" /\ cache' = Put(c.key, c.value)
        /\ excused' = IF c.value = View(c.key) THEN excused \ {c.key} ELSE excused \cup {c.key}
  BY DEF Fill
<1>2. reading' = [reading EXCEPT ![r] = {}] /\ UNCHANGED <<db, writing, writes, failures>>
  BY DEF Fill
<1>3. c.key \in Keys /\ c.value \subseteq Covered(c.key) \X Statuses
  BY DEF CInv, Types, Reading
<1>4. /\ DOMAIN cache' = DOMAIN cache \cup {c.key} /\ cache'[c.key] = c.value
      /\ \A k \in DOMAIN cache : k # c.key => cache'[k] = cache[k]
  BY <1>1 DEF Put
<1>5. /\ \A q \in Readers : reading'[q] = IF q = r THEN {} ELSE reading[q]
      /\ reading' \in [Readers -> SUBSET Reading]
  BY <1>2 DEF CInv, Types
<1>6. Types'
  <2>1. DOMAIN cache' \subseteq Keys /\ excused' \subseteq Keys
    BY <1>1, <1>3, <1>4 DEF CInv, Types
  <2>2. \A k \in DOMAIN cache' : cache'[k] \subseteq Covered(k) \X Statuses
    BY <1>3, <1>4 DEF CInv, Types
  <2>3. \A q \in Readers : \A d \in reading'[q] :
          reading'[q] = {d} /\ d.value \subseteq Covered(d.key) \X Statuses
    BY <1>5 DEF CInv, Types
  <2>4. \A k : Covered(k)' = Covered(k)
    BY DEF Covered
  <2> QED BY <1>2, <1>5, <2>1, <2>2, <2>3, <2>4 DEF CInv, Types
<1>7. Unborn'
  BY <1>1, <1>2, <1>4, <1>5 DEF CInv, Unborn
<1>8. StaleHasACause'
  <2> SUFFICES ASSUME NEW k \in Keys, Stale(k)' PROVE AboutToDrop(k)' \/ k \in excused'
    BY DEF StaleHasACause
  <2>1. AboutToDrop(k)' = AboutToDrop(k) /\ View(k)' = View(k)
    BY <1>2 DEF AboutToDrop, View, Covered
  <2>2. CASE k = c.key
    BY <1>1, <1>4, <2>1, <2>2 DEF Stale
  <2>3. CASE k # c.key
    BY <1>1, <1>4, <2>1, <2>3 DEF Stale, CInv, StaleHasACause
  <2> QED BY <2>2, <2>3
<1> QED BY <1>6, <1>7, <1>8 DEF CInv

\* A write that promises to delete all it makes stale.
LEMMA WriteInv ==
  ASSUME CInv, NEW w \in Writers, NEW i \in Images, NEW status \in Statuses \cup {"deleted"},
         NEW todo \in Todos, Write(w, i, status, todo),
         "keys" \in {todo[n] : n \in 1..Len(todo)},
         db[i] = "none" \/ "image" \in {todo[n] : n \in 1..Len(todo)}
  PROVE  CInv'
<1> DEFINE c == [image |-> i, todo |-> todo, found |-> {}]
<1>1. /\ writing[w] = {} /\ db' = [db EXCEPT ![i] = status]
      /\ writing' = [writing EXCEPT ![w] = {c}]
      /\ UNCHANGED <<cache, reading, excused, failures>> /\ writes' \in 0..MaxWrites
  BY BoundsAssumption DEF Write, CInv, Types
<1>2. c \in WriteCalls /\ c.image = i /\ c.todo = todo
  BY DEF WriteCalls
<1>3. \A k \in Lists : Promised(c, k)
  BY DEF Promised
<1>4. db[i] = "none" \/ Promised(c, i)
  BY DEF Promised
<1> HIDE DEF c
<1>5. \A v \in Writers : writing'[v] = IF v = w THEN {c} ELSE writing[v]
  BY <1>1 DEF CInv, Types
<1>6. \A j \in Images : db'[j] = IF j = i THEN status ELSE db[j]
  BY <1>1 DEF CInv, Types
<1>7. Types'
  <2>1. writing' \in [Writers -> SUBSET WriteCalls] /\ db' \in [Images -> Statuses \cup {"none", "deleted"}]
    BY <1>1, <1>2 DEF CInv, Types
  <2>2. \A v \in Writers : \A d \in writing'[v] : writing'[v] = {d}
    BY <1>5 DEF CInv, Types
  <2>3. \A k : Covered(k)' = Covered(k)
    BY DEF Covered
  <2> QED BY <1>1, <2>1, <2>2, <2>3 DEF CInv, Types
<1>8. Unborn'
  BY <1>1, <1>6 DEF CInv, Unborn, Statuses
<1>9. StaleHasACause'
  <2> SUFFICES ASSUME NEW k \in Keys, Stale(k)', k \notin excused
               PROVE  \E v \in Writers : \E d \in writing'[v] : Promised(d, k)
    BY <1>1 DEF StaleHasACause, AboutToDrop, Promised
  <2>1. CASE k \in Lists
    BY <1>3, <1>5, <2>1
  <2>2. CASE k = i
    BY <1>1, <1>4, <1>5, <2>2 DEF CInv, Unborn, Stale
  <2>3. CASE k \in Images /\ k # i
    <3>1. View(k)' = View(k)
      BY <1>6, <2>3 DEF View, Covered
    <3>2. Stale(k)
      BY <1>1, <3>1 DEF Stale
    <3>3. PICK v \in Writers : \E d \in writing[v] : Promised(d, k)
      BY <3>2, AboutIsPromised DEF CInv, StaleHasACause
    <3> QED BY <1>1, <1>5, <3>3
  <2> QED BY <2>1, <2>2, <2>3 DEF Keys
<1> QED BY <1>7, <1>8, <1>9 DEF CInv

\* A step of a write that deletes keys, or gives up on them, goes on as d, and
\* keeps or excuses every promise it had made.
LEMMA CommandInv ==
  ASSUME CInv, NEW w \in Writers, NEW c \in writing[w], NEW d,
         d.todo = <<>> \/ d \in WriteCalls,
         writing' = [writing EXCEPT ![w] = IF d.todo = <<>> THEN {} ELSE {d}],
         UNCHANGED <<db, reading, writes>>, failures' \in 0..MaxFailures,
         DOMAIN cache' \subseteq DOMAIN cache,
         \A k \in DOMAIN cache' : cache'[k] = cache[k],
         excused' \subseteq Keys,
         \A k \in DOMAIN cache' : k \in excused => k \in excused',
         \A k \in DOMAIN cache' : Promised(c, k) =>
           (d.todo # <<>> /\ Promised(d, k)) \/ k \in excused'
  PROVE  CInv'
<1>1. \A v \in Writers : writing'[v] = IF v # w THEN writing[v]
                                       ELSE IF d.todo = <<>> THEN {} ELSE {d}
  BY DEF CInv, Types
<1>2. writing[w] = {c}
  BY DEF CInv, Types
<1>3. Types'
  <2>1. writing' \in [Writers -> SUBSET WriteCalls]
    BY DEF CInv, Types
  <2>2. \A v \in Writers : \A e \in writing'[v] : writing'[v] = {e}
    BY <1>1 DEF CInv, Types
  <2>3. DOMAIN cache' \subseteq Keys /\ \A k \in DOMAIN cache' : cache'[k] \subseteq Covered(k) \X Statuses
    BY DEF CInv, Types
  <2>4. \A k : Covered(k)' = Covered(k)
    BY DEF Covered
  <2> QED BY <2>1, <2>2, <2>3, <2>4 DEF CInv, Types
<1>4. Unborn'
  BY DEF CInv, Unborn
<1>5. StaleHasACause'
  <2> SUFFICES ASSUME NEW k \in Keys, Stale(k)', k \notin excused'
               PROVE  \E v \in Writers : \E e \in writing'[v] : Promised(e, k)
    BY DEF StaleHasACause, AboutToDrop, Promised
  <2>1. k \in DOMAIN cache' /\ Stale(k) /\ k \notin excused
    BY DEF Stale, View, Covered
  <2>2. PICK v \in Writers : \E e \in writing[v] : Promised(e, k)
    BY <2>1, AboutIsPromised DEF CInv, StaleHasACause
  <2>3. CASE v = w
    BY <1>1, <1>2, <2>1, <2>2, <2>3
  <2>4. CASE v # w
    BY <1>1, <2>2, <2>4
  <2> QED BY <2>3, <2>4
<1> QED BY <1>3, <1>4, <1>5 DEF CInv

\* A writer collects the keys of the lists, and deletes those it collected.
LEMMA DropListsInv == ASSUME CInv, NEW w \in Writers, FindLists(w) \/ DropLists(w) PROVE CInv'
<1>1. CASE FindLists(w)
  <2>1. PICK c \in writing[w] :
          /\ Head(c.todo) = "keys"
          /\ Advance(w, [c EXCEPT !.todo = Tail(@), !.found = DOMAIN cache \cap Lists])
    BY <1>1 DEF FindLists
  <2>2. c \in WriteCalls
    BY DEF CInv, Types
  <2> DEFINE d == [c EXCEPT !.todo = Tail(@), !.found = DOMAIN cache \cap Lists]
  <2>3. /\ d.todo = Tail(c.todo) /\ d.image = c.image
        /\ d.found = DOMAIN cache \cap Lists
        /\ d.todo = <<>> \/ d \in WriteCalls
    BY <2>2, TodoShapes DEF WriteCalls
  <2>6. Advance(w, d)
    BY <2>1
  <2> HIDE DEF d
  <2>4. ASSUME NEW k \in DOMAIN cache, Promised(c, k) PROVE d.todo # <<>> /\ Promised(d, k)
    BY <2>1, <2>2, <2>3, <2>4, AfterKeys
  <2> QED BY <1>1, <2>1, <2>3, <2>4, <2>6, CommandInv DEF FindLists, Advance, CInv, Types
<1>2. CASE DropLists(w)
  <2>1. PICK c \in writing[w] :
          /\ Head(c.todo) = "lists"
          /\ cache' = Drop(c.found) /\ excused' = excused \ c.found
          /\ Advance(w, [c EXCEPT !.todo = Tail(@)])
    BY <1>2 DEF DropLists
  <2>2. c \in WriteCalls
    BY DEF CInv, Types
  <2> DEFINE d == [c EXCEPT !.todo = Tail(@)]
  <2>3. /\ d.todo = Tail(c.todo) /\ d.image = c.image /\ d.found = c.found
        /\ d.todo = <<>> \/ d \in WriteCalls
    BY <2>2, TodoShapes DEF WriteCalls
  <2>6. Advance(w, d)
    BY <2>1
  <2> HIDE DEF d
  <2>4. /\ DOMAIN cache' = DOMAIN cache \ c.found
        /\ \A k \in DOMAIN cache' : cache'[k] = cache[k]
    BY <2>1 DEF Drop
  <2>5. ASSUME NEW k \in DOMAIN cache', Promised(c, k) PROVE d.todo # <<>> /\ Promised(d, k)
    BY <2>1, <2>2, <2>3, <2>4, <2>5, AfterDelete
  <2> QED BY <1>2, <2>1, <2>3, <2>4, <2>5, <2>6, CommandInv DEF DropLists, Advance, CInv, Types
<1> QED BY <1>1, <1>2

\* A writer deletes the entry of its image.
LEMMA DropImageInv == ASSUME CInv, NEW w \in Writers, DropImage(w) PROVE CInv'
<1>1. PICK c \in writing[w] :
        /\ Head(c.todo) = "image"
        /\ cache' = Drop({c.image}) /\ excused' = excused \ {c.image}
        /\ Advance(w, [c EXCEPT !.todo = Tail(@)])
  BY DEF DropImage
<1>2. c \in WriteCalls
  BY DEF CInv, Types
<1> DEFINE d == [c EXCEPT !.todo = Tail(@)]
<1>3. /\ d.todo = Tail(c.todo) /\ d.image = c.image /\ d.found = c.found
      /\ d.todo = <<>> \/ d \in WriteCalls
  BY <1>2, TodoShapes DEF WriteCalls
<1>6. Advance(w, d)
  BY <1>1
<1> HIDE DEF d
<1>4. /\ DOMAIN cache' = DOMAIN cache \ {c.image}
      /\ \A k \in DOMAIN cache' : cache'[k] = cache[k]
  BY <1>1 DEF Drop
<1>5. ASSUME NEW k \in DOMAIN cache', Promised(c, k) PROVE d.todo # <<>> /\ Promised(d, k)
  BY <1>1, <1>2, <1>3, <1>4, <1>5, AfterDelete
<1> QED BY <1>1, <1>3, <1>4, <1>5, <1>6, CommandInv DEF DropImage, Advance, CInv, Types

\* A deletion fails: what it should have deleted is excused.
LEMMA CommandFailsInv == ASSUME CInv, NEW w \in Writers, CommandFails(w) PROVE CInv'
<1>1. PICK c \in writing[w] :
        /\ excused' = excused \cup Spared(c, Head(c.todo))
        /\ Advance(w, [c EXCEPT !.todo = IF Head(c.todo) = "keys" THEN Tail(Tail(c.todo))
                                         ELSE Tail(c.todo)])
  BY DEF CommandFails
<1>2. c \in WriteCalls /\ c.todo \in Todos
  BY DEF CInv, Types, WriteCalls
<1>3. failures' \in 0..MaxFailures /\ UNCHANGED <<db, cache, reading, writes>>
  BY BoundsAssumption DEF CommandFails, Fails, CInv, Types
<1> DEFINE d == [c EXCEPT !.todo = IF Head(c.todo) = "keys" THEN Tail(Tail(c.todo))
                                   ELSE Tail(c.todo)]
<1>4. /\ d.todo = IF Head(c.todo) = "keys" THEN Tail(Tail(c.todo)) ELSE Tail(c.todo)
      /\ d.image = c.image /\ d.found = c.found
      /\ d.todo = <<>> \/ d \in WriteCalls
  BY <1>2, TodoShapes DEF WriteCalls
<1>8. Advance(w, d)
  BY <1>1
<1> HIDE DEF d
<1>5. Spared(c, Head(c.todo)) = CASE Head(c.todo) = "keys" -> Lists
                                  [] Head(c.todo) = "lists" -> c.found
                                  [] Head(c.todo) = "image" -> {c.image}
  BY DEF Spared
<1>6. Spared(c, Head(c.todo)) \subseteq Keys
  BY <1>2, <1>5, TodoShapes DEF WriteCalls, Keys
<1>7. ASSUME NEW k \in DOMAIN cache, Promised(c, k)
      PROVE  (d.todo # <<>> /\ Promised(d, k)) \/ k \in excused'
  <2>1. CASE Head(c.todo) = "keys"
    BY <1>1, <1>2, <1>4, <1>5, <1>7, <2>1, AfterFailedKeys
  <2>2. CASE Head(c.todo) # "keys"
    <3>1. /\ Head(c.todo) = "lists" => c.found \subseteq excused'
          /\ Head(c.todo) = "image" => c.image \in excused'
      BY <1>1, <1>5
    <3>2. d.todo = Tail(c.todo)
      BY <1>4, <2>2
    <3> QED BY <1>2, <1>4, <1>7, <2>2, <3>1, <3>2, AfterDelete
  <2> QED BY <2>1, <2>2
<1> QED BY <1>1, <1>3, <1>4, <1>6, <1>7, <1>8, CommandInv DEF Advance, CInv, Types

\* A writer dies: all it had yet to delete is excused.
LEMMA WriterDiesInv == ASSUME CInv, NEW w \in Writers, WriterDies(w) PROVE CInv'
<1>1. PICK c : c \in writing[w]
  BY DEF WriterDies
<1>2. c \in WriteCalls /\ writing[w] = {c} /\ c.todo \in Todos
  BY <1>1 DEF CInv, Types, WriteCalls
<1>3. /\ failures' \in 0..MaxFailures /\ UNCHANGED <<db, cache, reading, writes>>
      /\ writing' = [writing EXCEPT ![w] = {}]
  BY BoundsAssumption DEF WriterDies, Fails, CInv, Types
<1>4. excused' = excused \cup UNION {Spared(c, c.todo[n]) : n \in 1..Len(c.todo)}
  BY <1>2 DEF WriterDies
<1>5. excused' \subseteq Keys
  <2>1. ASSUME NEW n \in 1..Len(c.todo) PROVE Spared(c, c.todo[n]) \subseteq Keys
    <3>1. c.todo[n] \in {"keys", "lists", "image"}
      BY <1>2, TodoShapes
    <3> QED BY <1>2, <3>1 DEF Spared, WriteCalls, Keys
  <2> QED BY <1>4, <2>1 DEF CInv, Types
<1>6. ASSUME NEW k, Promised(c, k) PROVE k \in excused'
  <2>1. PICK n \in 1..Len(c.todo) : k \in Spared(c, c.todo[n])
    BY <1>6 DEF Promised, Spared
  <2> QED BY <1>4, <2>1
<1> DEFINE d == [todo |-> <<>>]
<1>7. d.todo = <<>>
  OBVIOUS
<1> HIDE DEF d
<1> QED BY <1>1, <1>3, <1>4, <1>5, <1>6, <1>7, CommandInv

\* An entry that is gone is not stale.
LEMMA ExpireInv == ASSUME CInv, NEW k \in Keys, Expire(k) PROVE CInv'
<1>1. /\ UNCHANGED <<db, reading, writing, writes, failures>> /\ excused' = excused \ {k}
      /\ DOMAIN cache' = DOMAIN cache \ {k} /\ \A x \in DOMAIN cache' : cache'[x] = cache[x]
  BY DEF Expire, Drop
<1>2. Types'
  <2>1. DOMAIN cache' \subseteq Keys /\ \A x \in DOMAIN cache' : cache'[x] \subseteq Covered(x) \X Statuses
    BY <1>1 DEF CInv, Types
  <2>2. \A x : Covered(x)' = Covered(x)
    BY DEF Covered
  <2> QED BY <1>1, <2>1, <2>2 DEF CInv, Types
<1>3. Unborn'
  BY <1>1 DEF CInv, Unborn
<1>4. StaleHasACause'
  BY <1>1 DEF CInv, StaleHasACause, Stale, View, Covered, AboutToDrop
<1> QED BY <1>2, <1>3, <1>4 DEF CInv

\* The three writes of the service.
LEMMA WritesInv ==
  ASSUME CInv, NEW w \in Writers, NEW i \in Images,
         Create(w, i) \/ StatusWrite(w, i) \/ Delete(w, i)
  PROVE  CInv'
<1>1. CASE Create(w, i)
  <2> DEFINE todo == <<"keys", "lists">>
  <2>1. todo \in Todos /\ "keys" \in {todo[n] : n \in 1..Len(todo)}
    BY DEF Todos
  <2> QED BY <1>1, <2>1, WriteInv DEF Create, Statuses
<1>2. CASE StatusWrite(w, i)
  <2> DEFINE todo == <<"keys", "lists", "image">>
  <2>1. /\ todo \in Todos /\ "keys" \in {todo[n] : n \in 1..Len(todo)}
        /\ "image" \in {todo[n] : n \in 1..Len(todo)}
    BY DEF Todos
  <2>2. PICK status \in Statuses : Write(w, i, status, todo)
    BY <1>2 DEF StatusWrite
  <2> QED BY <2>1, <2>2, WriteInv
<1>3. CASE Delete(w, i)
  <2> DEFINE todo == <<"image", "keys", "lists">>
  <2>1. /\ todo \in Todos /\ "keys" \in {todo[n] : n \in 1..Len(todo)}
        /\ "image" \in {todo[n] : n \in 1..Len(todo)}
    BY DEF Todos
  <2> QED BY <1>3, <2>1, WriteInv DEF Delete
<1> QED BY <1>1, <1>2, <1>3

-----------------------------------------------------------------------------
\* Every step of readers, writers and time keeps the invariant.
LEMMA NextCInv == CInv /\ [Next]_vars => CInv'
<1> SUFFICES ASSUME CInv, [Next]_vars PROVE CInv'
  OBVIOUS
<1>1. CASE UNCHANGED vars
  BY <1>1 DEF vars, CInv, Types, Unborn, StaleHasACause, Stale, View, Covered, AboutToDrop
<1>2. ASSUME NEW r \in Readers, ReadStep(r) \/ ReadCut(r) \/ \E k \in Keys : Miss(r, k)
      PROVE  CInv'
  BY <1>2, ReadInv, FillInv DEF ReadStep
<1>3. ASSUME NEW w \in Writers, Invalidate(w) \/ CommandFails(w) \/ WriterDies(w)
      PROVE  CInv'
  BY <1>3, DropListsInv, DropImageInv, CommandFailsInv, WriterDiesInv DEF Invalidate
<1> QED BY <1>1, <1>2, <1>3, WritesInv, ExpireInv DEF Next

\* For every number of images, lists, readers, writers and failures the inductive
\* invariant holds.
THEOREM CacheInvariance == Spec => []CInv
BY InitCInv, NextCInv, PTL DEF Spec

\* The database, the cache and the calls in progress keep their types: an entry shows
\* only images that its key covers.
THEOREM CacheTypeCorrect == Spec => []TypeOK
<1>1. CInv => TypeOK
  BY TodoShapes DEF CInv, Types, TypeOK, WriteCalls, Writing
<1> QED BY <1>1, CacheInvariance, PTL

\* Every write invalidates all it made stale: a cached value that differs from the
\* database is about to be deleted, or its deletion failed, or a reader that had
\* queried before the write filled it in afterwards.
THEOREM StaleEntriesAreExplained == Spec => []StaleHasACause
<1>1. CInv => StaleHasACause
  BY DEF CInv
<1> QED BY <1>1, CacheInvariance, PTL

=============================================================================
