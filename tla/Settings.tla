------------------------------ MODULE Settings ------------------------------
(***************************************************************************)
(* The user settings: one row per user, the row of `default' standing in   *)
(* for a user who has none and for the anonymous user, read through a      *)
(* cache entry per user.  Calls of several users, each of several steps,   *)
(* interleave.                                                             *)
(***************************************************************************)
EXTENDS Naturals

CONSTANTS
  Users,        \* named users
  Default,      \* the user id `default', of the row the migration inserts
  Anonymous,    \* a request without a user id (nil)
  Requesters,   \* the user ids of the requests of a run, Anonymous included
  Fields, Values,
  Migrated, Programmatic,  \* the value of a field in the migration's row and in DefaultSettings
  Calls,        \* the requests served at a time
  MaxFailures   \* bound: failed cache commands and abandoned calls

ASSUME UsersAssumption == Default \notin Users /\ Anonymous \notin Users \cup {Default}
ASSUME RequestersAssumption == Requesters \subseteq Users \cup {Default, Anonymous}
ASSUME ValuesAssumption == {Migrated, Programmatic} \subseteq Values
ASSUME FailuresAssumption == MaxFailures \in Nat

VARIABLES
  rows,       \* the rows of user_settings whose user_id is not NULL
  nullRow,    \* whether there are others
  cache,      \* the cached entries, by the user id in their key
  call,       \* per call: its progress
  mixed,      \* history: keys on which two calls overlapped or one failed, lately
  failures

vars == <<rows, nullRow, cache, call, mixed, failures>>

-----------------------------------------------------------------------------
Ids == Users \cup {Default}

\* A settings document names the row it came from.
Contents == [Fields -> Values]
Documents == [owner : Ids, fields : Contents]
Patches == UNION {[S -> Values] : S \in SUBSET Fields}

DefaultSettings == [owner |-> Default, fields |-> [f \in Fields |-> Programmatic]]

\* Mutated form: one key for everybody.
KeyShared(u) == Default

KeyOf(u) == IF u = Anonymous THEN Default ELSE u

\* GetByUserID; GetDefault of a missing row is DefaultSettings.
Row(u) == [owner |-> u, fields |-> rows[u]]
DefaultRow == IF Default \in DOMAIN rows THEN Row(Default) ELSE DefaultSettings

\* What GetSettings is to return for key k when it reads the database.
Effective(k) == IF k \in DOMAIN rows THEN Row(k) ELSE DefaultRow

\* applyUpdates
Apply(fields, patch) ==
  [f \in Fields |-> IF f \in DOMAIN patch THEN patch[f] ELSE fields[f]]

-----------------------------------------------------------------------------
Kinds == {"get", "update", "reset"}
Steps == {"idle", "row", "default", "fill", "save", "invalidate"}
Fresh == [who |-> Anonymous, kind |-> "get", step |-> "idle",
          doc |-> DefaultSettings, patch |-> <<>>]

InProgress(c) == call[c].step # "idle"
Busy(k) == \E c \in Calls : InProgress(c) /\ KeyOf(call[c].who) = k

Init ==
  /\ rows = [u \in {Default} |-> [f \in Fields |-> Migrated]]
  /\ nullRow = FALSE
  /\ cache = [k \in {} |-> {}]
  /\ call = [c \in Calls |-> Fresh]
  /\ mixed = {}
  /\ failures = 0

Update(c, k) == call' = [call EXCEPT ![c] = k]

Put(f, k, v) == [x \in DOMAIN f \cup {k} |-> IF x = k THEN v ELSE f[x]]
Drop(f, k) == [x \in DOMAIN f \ {k} |-> f[x]]

\* A failure that leaves key k in doubt.
Fails(k) ==
  /\ failures < MaxFailures /\ failures' = failures + 1
  /\ mixed' = mixed \cup {k}

-----------------------------------------------------------------------------
\* What follows GetSettings: an update goes on with the document it returned.
AfterGet(k, d) ==
  IF k.kind = "update" THEN [k EXCEPT !.step = "save", !.doc = d]
  ELSE Fresh

\* tryGetFromCache.  A miss of a named user queries its own row first.
Lookup(k) ==
  IF KeyOf(k.who) \in DOMAIN cache THEN AfterGet(k, cache[KeyOf(k.who)])
  ELSE [k EXCEPT !.step = IF k.who = Anonymous THEN "default" ELSE "row"]

Begins(c, k) ==
  /\ ~InProgress(c)
  /\ Update(c, k)
  /\ mixed' = IF Busy(KeyOf(k.who)) THEN mixed \cup {KeyOf(k.who)} ELSE mixed
  /\ UNCHANGED <<rows, nullRow, cache, failures>>

Get(c) ==
  \E u \in Requesters : Begins(c, Lookup([Fresh EXCEPT !.who = u]))

\* UpdateSettings starts with a GetSettings of its own.
UpdateSettings(c) ==
  \E u \in Requesters, p \in Patches :
    Begins(c, Lookup([Fresh EXCEPT !.who = u, !.kind = "update", !.patch = p]))

ResetSettings(c) ==
  \E u \in Requesters : Begins(c, [Fresh EXCEPT !.who = u, !.kind = "reset", !.step = "save"])

\* fetchSettingsWithDefault: two queries, the second when the first finds none.
FetchRow(c) ==
  LET u == call[c].who IN
  /\ call[c].step = "row"
  /\ Update(c, IF u \in DOMAIN rows THEN [call[c] EXCEPT !.step = "fill", !.doc = Row(u)]
               ELSE [call[c] EXCEPT !.step = "default"])
  /\ UNCHANGED <<rows, nullRow, cache, mixed, failures>>

FetchDefault(c) ==
  /\ call[c].step = "default"
  /\ Update(c, [call[c] EXCEPT !.step = "fill", !.doc = DefaultRow])
  /\ UNCHANGED <<rows, nullRow, cache, mixed, failures>>

\* cacheSettings; its error is ignored.
Fill(c) ==
  LET key == KeyOf(call[c].who) IN
  /\ call[c].step = "fill"
  /\ \/ cache' = Put(cache, key, call[c].doc) /\ UNCHANGED <<mixed, failures>>
     \/ Fails(key) /\ UNCHANGED cache
  /\ Update(c, AfterGet(call[c], call[c].doc))
  /\ UNCHANGED <<rows, nullRow>>

\* Upsert: ON CONFLICT (user_id), which no NULL is in conflict with.  An update
\* writes the row its document came from, a reset that of the request.
Save(c) ==
  LET k == call[c] IN
  /\ k.step = "save"
  /\ IF k.kind = "reset"
     THEN IF k.who = Anonymous
          THEN nullRow' = TRUE /\ UNCHANGED rows
          ELSE rows' = Put(rows, k.who, DefaultSettings.fields) /\ UNCHANGED nullRow
     ELSE rows' = Put(rows, k.doc.owner, Apply(k.doc.fields, k.patch)) /\ UNCHANGED nullRow
  /\ Update(c, [k EXCEPT !.step = "invalidate"])
  /\ UNCHANGED <<cache, mixed, failures>>

\* Mutated form: the entry of the default user is deleted.
InvalidateDefault(c) ==
  /\ call[c].step = "invalidate"
  /\ cache' = Drop(cache, Default)
  /\ Update(c, Fresh)
  /\ UNCHANGED <<rows, nullRow, mixed, failures>>

Invalidate(c) ==
  LET key == KeyOf(call[c].who) IN
  /\ call[c].step = "invalidate"
  /\ \/ cache' = Drop(cache, key) /\ UNCHANGED <<mixed, failures>>
     \/ Fails(key) /\ UNCHANGED cache
  /\ Update(c, Fresh)
  /\ UNCHANGED <<rows, nullRow>>

\* A canceled request or a failed statement.
Abandon(c) ==
  /\ InProgress(c)
  /\ Fails(KeyOf(call[c].who))
  /\ Update(c, Fresh)
  /\ UNCHANGED <<rows, nullRow, cache>>

\* Mutated form: the entry of a named user has no TTL.
ExpireDefaultOnly(k) ==
  /\ k \in DOMAIN cache \cap {Default}
  /\ cache' = Drop(cache, k)
  /\ mixed' = IF Busy(k) THEN mixed ELSE mixed \ {k}
  /\ UNCHANGED <<rows, nullRow, call, failures>>

\* settingsCacheTTL
Expire(k) ==
  /\ k \in DOMAIN cache
  /\ cache' = Drop(cache, k)
  /\ mixed' = IF Busy(k) THEN mixed ELSE mixed \ {k}
  /\ UNCHANGED <<rows, nullRow, call, failures>>

-----------------------------------------------------------------------------
Serve(c) == FetchRow(c) \/ FetchDefault(c) \/ Fill(c) \/ Save(c) \/ Invalidate(c)

Next ==
  \/ \E c \in Calls : Get(c) \/ UpdateSettings(c) \/ ResetSettings(c) \/ Serve(c) \/ Abandon(c)
  \/ \E k \in Ids : Expire(k)

Spec == Init /\ [][Next]_vars

FairSpec ==
  /\ Spec
  /\ \A c \in Calls : WF_vars(Serve(c))
  /\ \A k \in Ids : WF_vars(Expire(k))

-----------------------------------------------------------------------------
TypeOK ==
  /\ DOMAIN rows \subseteq Ids /\ \A u \in DOMAIN rows : rows[u] \in Contents
  /\ nullRow \in BOOLEAN
  /\ DOMAIN cache \subseteq Ids /\ \A k \in DOMAIN cache : cache[k] \in Documents
  /\ \A c \in Calls :
       /\ call[c].who \in Ids \cup {Anonymous} /\ call[c].kind \in Kinds /\ call[c].step \in Steps
       /\ call[c].doc \in Documents /\ call[c].patch \in Patches
  /\ mixed \subseteq Ids
  /\ failures \in 0..MaxFailures

\* The rows that differ between two states.
Changed(old, new) ==
  {u \in DOMAIN new : u \notin DOMAIN old \/ new[u] # old[u]}

(***************************************************************************)
(* UpdateSettings writes whichever row its document came from, and that    *)
(* went through the cache: still, no call ever changes the row of another  *)
(* named user.                                                             *)
(***************************************************************************)
NamedRowsAreTheirOwn ==
  [][\A c \in Calls : Save(c) => Changed(rows, rows') \subseteq {KeyOf(call[c].who), Default}]_vars

(***************************************************************************)
(* The calls of one user, one after the other and with no failure, leave   *)
(* no stale entry of the user's own row: a user reads what it last wrote.  *)
(***************************************************************************)
OwnRowIsFresh ==
  \A k \in (DOMAIN cache \cap DOMAIN rows) \ {Default} :
    ~Busy(k) /\ k \notin mixed => cache[k] = Row(k)

(***************************************************************************)
(* Once the rows stay as they are, every key comes to show what the        *)
(* database holds for it, the keys of users who share the default row      *)
(* included, which no write of that row deletes, and goes on showing it.   *)
(***************************************************************************)
CacheConverges ==
  <>[][rows' = rows]_vars => <>[](\A k \in DOMAIN cache : cache[k] = Effective(k))

(***************************************************************************)
(* "UpdateSettings updates user settings" (SettingsServiceImpl): the row   *)
(* it changes is that of the user in the request.                          *)
(***************************************************************************)
UpdatesTheUsersRow ==
  [][\A c \in Calls : Save(c) => Changed(rows, rows') \subseteq {KeyOf(call[c].who)}]_vars

=============================================================================
