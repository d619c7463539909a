--------------------------- MODULE SettingsProofs ---------------------------
(***************************************************************************)
(* Proofs about Settings, for any users, fields, values and number of      *)
(* concurrent requests.                                                    *)
(***************************************************************************)
EXTENDS Settings, TLAPS

CallRecords ==
  [who : Ids \cup {Anonymous}, kind : Kinds, step : Steps, doc : Documents, patch : Patches]

Types ==
  /\ DOMAIN rows \subseteq Ids /\ \A u \in DOMAIN rows : rows[u] \in Contents
  /\ nullRow \in BOOLEAN
  /\ DOMAIN cache \subseteq Ids /\ \A k \in DOMAIN cache : cache[k] \in Documents
  /\ call \in [Calls -> CallRecords]
  /\ mixed \subseteq Ids
  /\ failures \in 0..MaxFailures

\* A document read for a key is the row of that user or the default one, in the
\* cache or in the hands of a call: what an update saves under its owner.
Owned ==
  /\ \A k \in DOMAIN cache : cache[k].owner \in {k, Default}
  /\ \A c \in Calls : call[c].doc.owner \in {KeyOf(call[c].who), Default}
  /\ \A c \in Calls : call[c].step = "row" => call[c].who # Anonymous

\* A key two calls have in hand at once is mixed.
Alone ==
  \A k \in Ids \ mixed : \A c, d \in Calls :
    /\ InProgress(c) /\ KeyOf(call[c].who) = k
    /\ InProgress(d) /\ KeyOf(call[d].who) = k
    => c = d

\* The entry of named user k is fresh, or the one call on k is going to replace it.
Cached(k) == k \in DOMAIN cache /\ k \in DOMAIN rows => cache[k] = Row(k)

OnItsWay ==
  \A k \in Users \ mixed :
    /\ Cached(k) \/ \E c \in Calls : call[c].step = "invalidate" /\ KeyOf(call[c].who) = k
    /\ \A c \in Calls :
         KeyOf(call[c].who) = k =>
           /\ call[c].step \in {"row", "default", "fill"} => k \notin DOMAIN cache
           /\ call[c].step = "default" => k \notin DOMAIN rows
           /\ call[c].step = "fill" /\ k \in DOMAIN rows => call[c].doc = Row(k)

SInv == Types /\ Owned /\ Alone /\ OnItsWay

-----------------------------------------------------------------------------
\* Every user, the anonymous one included, has the key of a row.
LEMMA KeysAreIds == ASSUME NEW u \in Ids \cup {Anonymous} PROVE KeyOf(u) \in Ids
  BY DEF KeyOf, Ids

\* The built-in settings are a document of the default user.
LEMMA DefaultDocument == DefaultSettings \in Documents /\ DefaultSettings.owner = Default
  BY ValuesAssumption DEF DefaultSettings, Documents, Contents, Ids

\* A call that is not in progress has the record of one.
LEMMA FreshCall == Fresh \in CallRecords /\ Fresh.step = "idle" /\ Fresh.doc.owner = Default
<1>1. <<>> \in Patches
  <2>1. <<>> \in [{} -> Values]
    OBVIOUS
  <2> QED BY <2>1 DEF Patches
<1> QED BY <1>1, DefaultDocument DEF Fresh, CallRecords, Kinds, Steps

\* A row is a document that its user owns.
LEMMA RowDocument ==
  ASSUME Types
  PROVE  /\ \A u \in DOMAIN rows : Row(u) \in Documents /\ Row(u).owner = u
         /\ DefaultRow \in Documents /\ DefaultRow.owner = Default
BY DefaultDocument DEF Types, Row, DefaultRow, Documents

\* Rows as the migrations leave them, and no entry.
LEMMA InitSInv == Init => SInv
<1> SUFFICES ASSUME Init PROVE SInv
  OBVIOUS
<1>1. Types
  <2>1. DOMAIN rows \subseteq Ids /\ \A u \in DOMAIN rows : rows[u] \in Contents
    BY ValuesAssumption DEF Init, Ids, Contents
  <2>2. DOMAIN cache = {} /\ mixed = {} /\ nullRow = FALSE /\ failures = 0
    BY DEF Init
  <2>3. call \in [Calls -> CallRecords]
    BY FreshCall DEF Init
  <2>4. failures \in 0..MaxFailures
    BY <2>2, FailuresAssumption
  <2>5. /\ nullRow \in BOOLEAN /\ DOMAIN cache \subseteq Ids /\ mixed \subseteq Ids
        /\ \A k \in DOMAIN cache : cache[k] \in Documents
    BY <2>2
  <2> QED BY <2>1, <2>3, <2>4, <2>5 DEF Types
<1>2. Owned /\ Alone /\ OnItsWay
  BY FreshCall DEF Init, Owned, Alone, OnItsWay, Cached, InProgress
<1> QED BY <1>1, <1>2 DEF SInv

-----------------------------------------------------------------------------
\* Where a call goes after its GetSettings.
LEMMA AfterGetCall ==
  ASSUME NEW k \in CallRecords, NEW d \in Documents, d.owner \in {KeyOf(k.who), Default}
  PROVE  /\ AfterGet(k, d) \in CallRecords
         /\ AfterGet(k, d).step \in {"idle", "save"}
         /\ AfterGet(k, d).step # "idle" => AfterGet(k, d).who = k.who
         /\ AfterGet(k, d).doc.owner \in {KeyOf(AfterGet(k, d).who), Default}
BY FreshCall DEF AfterGet, CallRecords, Steps

\* Where a call starts.
LEMMA LookupCall ==
  ASSUME SInv, NEW k \in CallRecords, k.step = "idle", k.doc = DefaultSettings
  PROVE  /\ Lookup(k) \in CallRecords
         /\ Lookup(k).step \in {"idle", "save", "row", "default"}
         /\ Lookup(k).step # "idle" => Lookup(k).who = k.who
         /\ Lookup(k).doc.owner \in {KeyOf(Lookup(k).who), Default}
         /\ Lookup(k).step \in {"row", "default"} => KeyOf(k.who) \notin DOMAIN cache
         /\ Lookup(k).step = "row" => k.who # Anonymous
         /\ Lookup(k).step = "default" => k.who = Anonymous
<1>1. CASE KeyOf(k.who) \in DOMAIN cache
  <2>1. cache[KeyOf(k.who)] \in Documents /\ cache[KeyOf(k.who)].owner \in {KeyOf(k.who), Default}
    BY <1>1 DEF SInv, Types, Owned
  <2> QED BY <1>1, <2>1, AfterGetCall DEF Lookup
<1>2. CASE KeyOf(k.who) \notin DOMAIN cache
  BY <1>2, DefaultDocument DEF Lookup, CallRecords, Steps
<1> QED BY <1>1, <1>2

\* A call begins, or ends with what the cache has: another call in progress on the
\* same key makes the key mixed.
LEMMA BeginsInv ==
  ASSUME SInv, NEW c \in Calls, NEW k \in CallRecords, NEW u \in Ids \cup {Anonymous},
         Begins(c, k),
         k.who = u \/ k.step = "idle", k.step \in {"idle", "save", "row", "default"},
         k.doc.owner \in {KeyOf(k.who), Default},
         k.step \in {"row", "default"} => KeyOf(u) \notin DOMAIN cache,
         k.step = "row" => u # Anonymous,
         k.step = "default" => u = Anonymous
  PROVE  SInv'
<1>1. /\ ~InProgress(c) /\ call' = [call EXCEPT ![c] = k]
      /\ UNCHANGED <<rows, nullRow, cache, failures>>
      /\ mixed' = IF Busy(KeyOf(k.who)) THEN mixed \cup {KeyOf(k.who)} ELSE mixed
  BY DEF Begins, Update
<1>2. KeyOf(k.who) \in Ids
  BY KeysAreIds DEF CallRecords
<1>3. Types'
  BY <1>1, <1>2 DEF SInv, Types
<1>4. \A d \in Calls : call'[d] = IF d = c THEN k ELSE call[d]
  BY <1>1 DEF SInv, Types
<1>5. Owned'
  BY <1>1, <1>4 DEF SInv, Owned
<1>6. mixed \subseteq mixed'
  BY <1>1
<1>7. Alone'
  BY <1>1, <1>4, <1>6 DEF SInv, Alone, InProgress, Busy
<1>8. OnItsWay'
  <2> SUFFICES ASSUME NEW n \in Users, n \notin mixed'
               PROVE  /\ Cached(n) \/ \E d \in Calls : call'[d].step = "invalidate" /\ KeyOf(call'[d].who) = n
                      /\ \A d \in Calls :
                           KeyOf(call'[d].who) = n =>
                             /\ call'[d].step \in {"row", "default", "fill"} => n \notin DOMAIN cache
                             /\ call'[d].step = "default" => n \notin DOMAIN rows
                             /\ call'[d].step = "fill" /\ n \in DOMAIN rows => call'[d].doc = Row(n)
    BY <1>1 DEF OnItsWay, Cached, Row
  <2>1. n \in Users \ mixed /\ n # Default
    BY <1>6, UsersAssumption
  <2>2. KeyOf(k.who) = n /\ k.step # "idle" => u = n
    BY <2>1 DEF KeyOf
  <2> QED BY <1>1, <1>4, <2>1, <2>2, UsersAssumption DEF SInv, OnItsWay, InProgress, KeyOf
<1> QED BY <1>3, <1>5, <1>7, <1>8 DEF SInv

\* The three operations, up to their first query.
LEMMA StartInv ==
  ASSUME SInv, NEW c \in Calls, Get(c) \/ UpdateSettings(c) \/ ResetSettings(c)
  PROVE  SInv'
<1>1. CASE Get(c)
  <2>1. PICK u \in Requesters : Begins(c, Lookup([Fresh EXCEPT !.who = u]))
    BY <1>1 DEF Get
  <2> DEFINE k == [Fresh EXCEPT !.who = u]
  <2>2. u \in Ids \cup {Anonymous}
    BY RequestersAssumption DEF Ids
  <2>3. k \in CallRecords /\ k.step = "idle" /\ k.doc = DefaultSettings /\ k.who = u
    BY <2>2, FreshCall DEF CallRecords, Fresh
  <2> QED BY <2>1, <2>2, <2>3, LookupCall, BeginsInv
<1>2. CASE UpdateSettings(c)
  <2>1. PICK u \in Requesters, p \in Patches :
          Begins(c, Lookup([Fresh EXCEPT !.who = u, !.kind = "update", !.patch = p]))
    BY <1>2 DEF UpdateSettings
  <2> DEFINE k == [Fresh EXCEPT !.who = u, !.kind = "update", !.patch = p]
  <2>2. u \in Ids \cup {Anonymous}
    BY RequestersAssumption DEF Ids
  <2>3. k \in CallRecords /\ k.step = "idle" /\ k.doc = DefaultSettings /\ k.who = u
    BY <2>2, FreshCall DEF CallRecords, Fresh, Kinds
  <2> QED BY <2>1, <2>2, <2>3, LookupCall, BeginsInv
<1>3. CASE ResetSettings(c)
  <2>1. PICK u \in Requesters :
          Begins(c, [Fresh EXCEPT !.who = u, !.kind = "reset", !.step = "save"])
    BY <1>3 DEF ResetSettings
  <2> DEFINE k == [Fresh EXCEPT !.who = u, !.kind = "reset", !.step = "save"]
  <2>2. u \in Ids \cup {Anonymous}
    BY RequestersAssumption DEF Ids
  <2>3. k \in CallRecords /\ k.step = "save" /\ k.doc.owner = Default /\ k.who = u
    BY <2>2, FreshCall DEF CallRecords, Fresh, Kinds, Steps
  <2> QED BY <2>1, <2>2, <2>3, BeginsInv
<1> QED BY <1>1, <1>2, <1>3

\* A call reads a row: its user's, or the default one.
LEMMA FetchInv ==
  ASSUME SInv, NEW c \in Calls, FetchRow(c) \/ FetchDefault(c)
  PROVE  SInv'
<1>1. /\ UNCHANGED <<rows, nullRow, cache, mixed, failures>>
      /\ call \in [Calls -> CallRecords]
  BY DEF FetchRow, FetchDefault, SInv, Types
<1>2. PICK k \in CallRecords :
        /\ call' = [call EXCEPT ![c] = k]
        /\ InProgress(c) /\ k.who = call[c].who
        /\ k.doc.owner \in {KeyOf(k.who), Default}
        /\ \/ call[c].step = "row" /\ k.step = "default" /\ k.who \notin DOMAIN rows
           \/ call[c].step = "row" /\ k.step = "fill" /\ k.doc = Row(k.who)
           \/ call[c].step = "default" /\ k.step = "fill"
  <2>1. CASE FetchRow(c)
    <3>1. call[c].step = "row" /\ call[c].who \in Ids /\ KeyOf(call[c].who) = call[c].who
      BY <1>1, <2>1 DEF FetchRow, SInv, Owned, CallRecords, KeyOf
    <3>2. CASE call[c].who \in DOMAIN rows
      <4> DEFINE k == [call[c] EXCEPT !.step = "fill", !.doc = Row(call[c].who)]
      <4>1. Row(call[c].who) \in Documents /\ Row(call[c].who).owner = call[c].who
        BY <3>2, RowDocument DEF SInv
      <4>2. k \in CallRecords /\ k.who = call[c].who /\ k.step = "fill" /\ k.doc = Row(k.who)
        BY <1>1, <4>1 DEF CallRecords, Steps
      <4> QED BY <2>1, <3>1, <3>2, <4>1, <4>2 DEF FetchRow, Update, InProgress
    <3>3. CASE call[c].who \notin DOMAIN rows
      <4> DEFINE k == [call[c] EXCEPT !.step = "default"]
      <4>1. /\ k \in CallRecords /\ k.who = call[c].who /\ k.step = "default"
            /\ k.doc = call[c].doc
        BY <1>1 DEF CallRecords, Steps
      <4> QED BY <2>1, <3>1, <3>3, <4>1 DEF FetchRow, Update, InProgress, SInv, Owned
    <3> QED BY <3>2, <3>3
  <2>2. CASE FetchDefault(c)
    <3> DEFINE k == [call[c] EXCEPT !.step = "fill", !.doc = DefaultRow]
    <3>1. k \in CallRecords /\ k.who = call[c].who /\ k.step = "fill" /\ k.doc.owner = Default
      BY <1>1, RowDocument DEF CallRecords, Steps, SInv
    <3> QED BY <2>2, <3>1 DEF FetchDefault, Update, InProgress
  <2> QED BY <2>1, <2>2
<1>3. \A d \in Calls : call'[d] = IF d = c THEN k ELSE call[d]
  BY <1>1, <1>2
<1>4. Types' /\ Owned'
  BY <1>1, <1>2, <1>3 DEF SInv, Types, Owned
<1>5. Alone'
  BY <1>1, <1>2, <1>3 DEF SInv, Alone, InProgress
<1>6. OnItsWay'
  <2>1. \A n \in Users : KeyOf(k.who) = n => k.who = n
    BY UsersAssumption DEF KeyOf
  <2> QED BY <1>1, <1>2, <1>3, <2>1 DEF SInv, OnItsWay, Cached, Row
<1> QED BY <1>4, <1>5, <1>6 DEF SInv

\* What a call that ends, or goes on to its save, leaves of the invariant.
LEMMA FillInv == ASSUME SInv, NEW c \in Calls, Fill(c) PROVE SInv'
<1> DEFINE key == KeyOf(call[c].who)
           k == AfterGet(call[c], call[c].doc)
<1>1. /\ call \in [Calls -> CallRecords] /\ call[c].step = "fill"
      /\ UNCHANGED <<rows, nullRow>> /\ call' = [call EXCEPT ![c] = k]
      /\ key \in Ids /\ call[c].doc \in Documents /\ call[c].doc.owner \in {key, Default}
  BY KeysAreIds DEF Fill, Update, SInv, Types, CallRecords, Owned
<1>2. /\ k \in CallRecords /\ k.step \in {"idle", "save"}
      /\ k.step # "idle" => k.who = call[c].who
      /\ k.doc.owner \in {KeyOf(k.who), Default}
  BY <1>1, AfterGetCall
<1> HIDE DEF k
<1>3. \A d \in Calls : call'[d] = IF d = c THEN k ELSE call[d]
  BY <1>1
<1>4. \/ cache' = Put(cache, key, call[c].doc) /\ UNCHANGED <<mixed, failures>>
      \/ cache' = cache /\ mixed' = mixed \cup {key} /\ failures' \in 0..MaxFailures
  BY FailuresAssumption DEF Fill, Fails, SInv, Types
<1>5. /\ DOMAIN cache' \subseteq DOMAIN cache \cup {key}
      /\ \A x \in DOMAIN cache' :
           \/ x \in DOMAIN cache /\ cache'[x] = cache[x]
           \/ x = key /\ cache'[x] = call[c].doc
      /\ key \notin mixed' => cache'[key] = call[c].doc
      /\ \A x \in DOMAIN cache' : x # key => cache'[x] = cache[x]
  <2>1. CASE cache' = Put(cache, key, call[c].doc)
    BY <2>1 DEF Put
  <2>2. CASE cache' = cache /\ key \in mixed'
    BY <2>2
  <2> QED BY <1>4, <2>1, <2>2
<1> HIDE DEF key
<1>6. Types'
  <2>1. call' \in [Calls -> CallRecords] /\ mixed' \subseteq Ids /\ failures' \in 0..MaxFailures
    BY <1>1, <1>2, <1>4 DEF SInv, Types
  <2>2. DOMAIN cache' \subseteq Ids
    BY <1>1, <1>5 DEF SInv, Types
  <2>3. \A x \in DOMAIN cache' : cache'[x] \in Documents
    BY <1>1, <1>5 DEF SInv, Types
  <2> QED BY <1>1, <2>1, <2>2, <2>3 DEF SInv, Types
<1>7. Owned'
  BY <1>1, <1>2, <1>3, <1>4, <1>5 DEF SInv, Owned, Put
<1>8. Alone'
  BY <1>1, <1>2, <1>3, <1>4 DEF SInv, Alone, InProgress
<1>9. OnItsWay'
  <2> SUFFICES ASSUME NEW n \in Users, n \notin mixed'
               PROVE  /\ Cached(n)' \/ \E d \in Calls : call'[d].step = "invalidate" /\ KeyOf(call'[d].who) = n
                      /\ \A d \in Calls :
                           KeyOf(call'[d].who) = n =>
                             /\ call'[d].step \in {"row", "default", "fill"} => n \notin DOMAIN cache'
                             /\ call'[d].step = "default" => n \notin DOMAIN rows
                             /\ call'[d].step = "fill" /\ n \in DOMAIN rows => call'[d].doc = Row(n)
    BY <1>1 DEF OnItsWay, Row
  <2>1. n \in Users \ mixed /\ n \in Ids
    BY <1>4 DEF Ids
  <2>2. CASE n = key
    <3>1. \A d \in Calls : InProgress(d) /\ KeyOf(call[d].who) = n => d = c
      BY <1>1, <2>1, <2>2 DEF SInv, Alone, InProgress, key
    <3>2. Cached(n)'
      BY <1>1, <1>5, <2>1, <2>2 DEF SInv, OnItsWay, Cached, Row, key
    <3> QED BY <1>2, <1>3, <3>1, <3>2 DEF InProgress
  <2>3. CASE n # key
    <3>1. (n \in DOMAIN cache' => n \in DOMAIN cache /\ cache'[n] = cache[n])
      BY <1>5, <2>3
    <3>2. Cached(n) => Cached(n)'
      BY <1>1, <3>1 DEF Cached, Row
    <3> QED BY <1>1, <1>2, <1>3, <2>1, <2>3, <3>1, <3>2 DEF SInv, OnItsWay, key
  <2> QED BY <2>2, <2>3
<1> QED BY <1>6, <1>7, <1>8, <1>9 DEF SInv

\* Save writes the row of its user or the default one, or one nobody reads.
LEMMA SavedRow ==
  ASSUME SInv, NEW c \in Calls, Save(c)
  PROVE  \/ rows' = rows /\ nullRow' = TRUE
         \/ /\ nullRow' = nullRow
            /\ \E u \in {KeyOf(call[c].who), Default}, f \in Contents : rows' = Put(rows, u, f)
<1>1. call[c] \in CallRecords /\ call[c].doc.owner \in {KeyOf(call[c].who), Default}
  BY DEF SInv, Types, Owned
<1>2. CASE call[c].kind = "reset"
  BY <1>2, DefaultDocument DEF Save, KeyOf, Documents
<1>3. CASE call[c].kind # "reset"
  <2>1. Apply(call[c].doc.fields, call[c].patch) \in Contents
    <3>1. call[c].doc.fields \in Contents
      BY <1>1 DEF CallRecords, Documents
    <3>2. PICK S \in SUBSET Fields : call[c].patch \in [S -> Values]
      BY <1>1 DEF CallRecords, Patches
    <3> QED BY <3>1, <3>2 DEF Apply, Contents
  <2> QED BY <1>1, <1>3, <2>1 DEF Save
<1> QED BY <1>2, <1>3

\* An update is saved under the owner of the document it changed.
LEMMA SaveInv == ASSUME SInv, NEW c \in Calls, Save(c) PROVE SInv'
<1> DEFINE key == KeyOf(call[c].who)
           k == [call[c] EXCEPT !.step = "invalidate"]
<1>1. /\ call \in [Calls -> CallRecords] /\ call[c].step = "save"
      /\ UNCHANGED <<cache, mixed, failures>> /\ call' = [call EXCEPT ![c] = k]
      /\ key \in Ids /\ call[c].doc.owner \in {key, Default}
  BY KeysAreIds DEF Save, Update, SInv, Types, CallRecords, Owned
<1>2. k \in CallRecords /\ k.step = "invalidate" /\ k.who = call[c].who /\ k.doc = call[c].doc
  BY <1>1 DEF CallRecords, Steps
<1> HIDE DEF k
<1>3. \A d \in Calls : call'[d] = IF d = c THEN k ELSE call[d]
  BY <1>1
<1>4. /\ rows' = rows /\ nullRow' = TRUE
      \/ /\ nullRow' = nullRow
         /\ \E u \in {key, Default}, f \in Contents : rows' = Put(rows, u, f)
  BY SavedRow
<1>5. /\ DOMAIN rows' \subseteq Ids /\ \A u \in DOMAIN rows' : rows'[u] \in Contents
      /\ \A u : u \notin {key, Default} =>
           (u \in DOMAIN rows' <=> u \in DOMAIN rows) /\ (u \in DOMAIN rows => rows'[u] = rows[u])
  BY <1>1, <1>4 DEF Put, SInv, Types, Ids
<1>6. nullRow' \in BOOLEAN
  BY <1>4 DEF SInv, Types
<1> HIDE DEF key
<1>7. Types'
  <2>1. call' \in [Calls -> CallRecords] /\ mixed' \subseteq Ids /\ failures' \in 0..MaxFailures
    BY <1>1, <1>2 DEF SInv, Types
  <2> QED BY <1>1, <1>5, <1>6, <2>1 DEF SInv, Types
<1>8. Owned' /\ Alone'
  BY <1>1, <1>2, <1>3 DEF SInv, Owned, Alone, InProgress
<1>9. OnItsWay'
  <2> SUFFICES ASSUME NEW n \in Users, n \notin mixed
               PROVE  /\ Cached(n)' \/ \E d \in Calls : call'[d].step = "invalidate" /\ KeyOf(call'[d].who) = n
                      /\ \A d \in Calls :
                           KeyOf(call'[d].who) = n =>
                             /\ call'[d].step \in {"row", "default", "fill"} => n \notin DOMAIN cache
                             /\ call'[d].step = "default" => n \notin DOMAIN rows'
                             /\ call'[d].step = "fill" /\ n \in DOMAIN rows' => call'[d].doc = Row(n)'
    BY <1>1 DEF OnItsWay
  <2>1. n \in Users \ mixed /\ n \in Ids /\ n # Default
    BY UsersAssumption DEF Ids
  <2>2. CASE n = key
    <3>1. \A d \in Calls : InProgress(d) /\ KeyOf(call[d].who) = n => d = c
      BY <1>1, <2>1, <2>2 DEF SInv, Alone, InProgress, key
    <3> QED BY <1>2, <1>3, <2>2, <3>1 DEF InProgress, key
  <2>3. CASE n # key
    <3>1. (n \in DOMAIN rows' <=> n \in DOMAIN rows) /\ (n \in DOMAIN rows => Row(n)' = Row(n))
      BY <1>5, <2>1, <2>3 DEF Row
    <3>2. Cached(n) => Cached(n)'
      BY <1>1, <3>1 DEF Cached
    <3>3. \A d \in Calls : KeyOf(call'[d].who) = n => d # c /\ call'[d] = call[d]
      BY <1>2, <1>3, <2>3 DEF key
    <3>4. Cached(n) \/ \E d \in Calls : call'[d].step = "invalidate" /\ KeyOf(call'[d].who) = n
      BY <1>2, <1>3, <2>1 DEF SInv, OnItsWay
    <3> QED BY <2>1, <3>1, <3>2, <3>3, <3>4 DEF SInv, OnItsWay
  <2> QED BY <2>2, <2>3
<1> QED BY <1>7, <1>8, <1>9 DEF SInv

\* A call that ends, its key dropped from the cache or in doubt.
LEMMA EndInv ==
  ASSUME SInv, NEW c \in Calls, InProgress(c), Update(c, Fresh), UNCHANGED <<rows, nullRow>>,
         \/ cache' = Drop(cache, KeyOf(call[c].who)) /\ UNCHANGED <<mixed, failures>>
         \/ cache' = cache /\ Fails(KeyOf(call[c].who))
  PROVE  SInv'
<1> DEFINE key == KeyOf(call[c].who)
<1>1. /\ call \in [Calls -> CallRecords]
      /\ call' = [call EXCEPT ![c] = Fresh] /\ key \in Ids
  BY KeysAreIds DEF Update, SInv, Types, CallRecords
<1>2. \A d \in Calls : call'[d] = IF d = c THEN Fresh ELSE call[d]
  BY <1>1
<1>3. \/ cache' = Drop(cache, key) /\ UNCHANGED <<mixed, failures>>
      \/ cache' = cache /\ mixed' = mixed \cup {key} /\ failures' \in 0..MaxFailures
  BY FailuresAssumption DEF Fails, SInv, Types
<1> HIDE DEF key
<1>4. /\ DOMAIN cache' \subseteq DOMAIN cache
      /\ \A x \in DOMAIN cache' : cache'[x] = cache[x]
      /\ key \notin mixed' => key \notin DOMAIN cache'
      /\ mixed \subseteq mixed'
  BY <1>3 DEF Drop
<1>5. Types'
  <2>1. call' \in [Calls -> CallRecords] /\ mixed' \subseteq Ids /\ failures' \in 0..MaxFailures
    BY <1>1, <1>3, FreshCall DEF SInv, Types
  <2>2. DOMAIN cache' \subseteq Ids /\ \A x \in DOMAIN cache' : cache'[x] \in Documents
    BY <1>4 DEF SInv, Types
  <2> QED BY <2>1, <2>2 DEF SInv, Types
<1>6. Owned' /\ Alone'
  BY <1>2, <1>4, FreshCall DEF SInv, Owned, Alone, InProgress
<1>7. OnItsWay'
  <2> SUFFICES ASSUME NEW n \in Users, n \notin mixed'
               PROVE  /\ Cached(n)' \/ \E d \in Calls : call'[d].step = "invalidate" /\ KeyOf(call'[d].who) = n
                      /\ \A d \in Calls :
                           KeyOf(call'[d].who) = n =>
                             /\ call'[d].step \in {"row", "default", "fill"} => n \notin DOMAIN cache'
                             /\ call'[d].step = "default" => n \notin DOMAIN rows
                             /\ call'[d].step = "fill" /\ n \in DOMAIN rows => call'[d].doc = Row(n)
    BY DEF OnItsWay, Row
  <2>1. n \in Users \ mixed
    BY <1>4
  <2>2. CASE n = key
    <3>1. Cached(n)'
      BY <1>4, <2>2 DEF Cached
    <3> QED BY <1>2, <1>4, <2>1, <3>1, FreshCall DEF SInv, OnItsWay
  <2>3. CASE n # key
    <3>1. Cached(n) => Cached(n)'
      BY <1>4 DEF Cached, Row
    <3> QED BY <1>2, <1>4, <2>1, <2>3, <3>1, FreshCall DEF SInv, OnItsWay, key
  <2> QED BY <2>2, <2>3
<1> QED BY <1>5, <1>6, <1>7 DEF SInv

\* An entry that is gone is not stale.
LEMMA ExpireInv == ASSUME SInv, NEW k \in Ids, Expire(k) PROVE SInv'
<1>1. /\ UNCHANGED <<rows, nullRow, call, failures>>
      /\ DOMAIN cache' = DOMAIN cache \ {k} /\ \A x \in DOMAIN cache' : cache'[x] = cache[x]
      /\ mixed' = IF Busy(k) THEN mixed ELSE mixed \ {k}
  BY DEF Expire, Drop
<1>2. Types'
  <2>1. DOMAIN cache' \subseteq Ids /\ \A x \in DOMAIN cache' : cache'[x] \in Documents
    BY <1>1 DEF SInv, Types
  <2>2. mixed' \subseteq Ids
    BY <1>1 DEF SInv, Types
  <2> QED BY <1>1, <2>1, <2>2 DEF SInv, Types
<1>3. Owned'
  BY <1>1 DEF SInv, Owned
<1>4. Alone'
  BY <1>1 DEF SInv, Alone, InProgress, Busy
<1>5. OnItsWay'
  <2> SUFFICES ASSUME NEW n \in Users, n \notin mixed'
               PROVE  /\ Cached(n)' \/ \E d \in Calls : call[d].step = "invalidate" /\ KeyOf(call[d].who) = n
                      /\ \A d \in Calls :
                           KeyOf(call[d].who) = n =>
                             /\ call[d].step \in {"row", "default", "fill"} => n \notin DOMAIN cache'
                             /\ call[d].step = "default" => n \notin DOMAIN rows
                             /\ call[d].step = "fill" /\ n \in DOMAIN rows => call[d].doc = Row(n)
    BY <1>1 DEF OnItsWay, Row
  <2>1. CASE n \notin mixed
    <3>1. Cached(n) => Cached(n)'
      BY <1>1 DEF Cached, Row
    <3> QED BY <1>1, <2>1, <3>1 DEF SInv, OnItsWay
  <2>2. CASE n \in mixed
    <3>1. n = k /\ ~Busy(n)
      BY <1>1, <2>2
    <3> QED BY <1>1, <3>1 DEF Cached, Busy, InProgress
  <2> QED BY <2>1, <2>2
<1> QED BY <1>2, <1>3, <1>4, <1>5 DEF SInv

-----------------------------------------------------------------------------
\* Every step of the calls and of time keeps the invariant.
LEMMA NextSInv == SInv /\ [Next]_vars => SInv'
<1> SUFFICES ASSUME SInv, [Next]_vars PROVE SInv'
  OBVIOUS
<1>1. CASE UNCHANGED vars
  BY <1>1 DEF vars, SInv, Types, Owned, Alone, OnItsWay, Cached, Row, InProgress
<1>2. ASSUME NEW c \in Calls, Invalidate(c) PROVE SInv'
  BY <1>2, EndInv DEF Invalidate, InProgress
<1>3. ASSUME NEW c \in Calls, Abandon(c) PROVE SInv'
  BY <1>3, EndInv DEF Abandon
<1> QED BY <1>1, <1>2, <1>3, StartInv, FetchInv, FillInv, SaveInv, ExpireInv DEF Next, Serve

\* For every number of users, calls and failures the inductive invariant holds.
THEOREM SettingsInvariance == Spec => []SInv
BY InitSInv, NextSInv, PTL DEF Spec

\* Rows, entries and calls keep their types; a cached document is one that
\* validation accepts.
THEOREM SettingsTypeCorrect == Spec => []TypeOK
<1>1. SInv => TypeOK
  BY DEF SInv, Types, TypeOK, CallRecords
<1> QED BY <1>1, SettingsInvariance, PTL

\* A user reads what it last wrote: as long as the calls on a key come one after
\* the other and none fails, its entry is never stale.
THEOREM OwnRowsAreFresh == Spec => []OwnRowIsFresh
<1>1. SInv => OwnRowIsFresh
  <2> SUFFICES ASSUME SInv, NEW k \in (DOMAIN cache \cap DOMAIN rows) \ {Default},
                      ~Busy(k), k \notin mixed
               PROVE  cache[k] = Row(k)
    BY DEF OwnRowIsFresh
  <2>1. k \in Users \ mixed
    BY DEF SInv, Types, Ids
  <2> QED BY <2>1 DEF SInv, OnItsWay, Cached, Busy, InProgress
<1> QED BY <1>1, SettingsInvariance, PTL

\* No call changes the row of another named user, although an update writes the
\* row its document, possibly a cached one, came from.
THEOREM OnlyOwnRowsAreWritten == Spec => NamedRowsAreTheirOwn
<1>1. SInv /\ [Next]_vars =>
        [\A c \in Calls : Save(c) => Changed(rows, rows') \subseteq {KeyOf(call[c].who), Default}]_vars
  <2> SUFFICES ASSUME SInv, NEW c \in Calls, Save(c)
               PROVE  Changed(rows, rows') \subseteq {KeyOf(call[c].who), Default}
    OBVIOUS
  <2>1. CASE rows' = rows
    BY <2>1 DEF Changed
  <2>2. ASSUME NEW u \in {KeyOf(call[c].who), Default}, NEW f, rows' = Put(rows, u, f)
        PROVE  Changed(rows, rows') \subseteq {u}
    BY <2>2 DEF Changed, Put
  <2> QED BY <2>1, <2>2, SavedRow
<1> QED BY <1>1, SettingsInvariance, PTL DEF Spec, NamedRowsAreTheirOwn

=============================================================================
