--------------------------- MODULE IncidentProofs ---------------------------
(***************************************************************************)
(* Proofs about DemoControls and Incident, for any number of controls,     *)
(* values and calls, and any TTL, stall and number of failures.            *)
(***************************************************************************)
EXTENDS Incident, SequenceTheorems, TLAPS

-----------------------------------------------------------------------------
(* The demo controls. *)

Progress == [kind : Kinds, step : Steps, doc : Documents, body : Bodies, age : Nat,
             failed : BOOLEAN]

Entries == [doc : Documents, age : Nat]

Types ==
  /\ stored \in Documents
  /\ entry \subseteq Entries
  /\ call \in [Calls -> Progress]
  /\ last \in [Documents -> Nat] /\ last[stored] = 0

\* A PUT may name no control.
LEMMA NoBody == <<>> \in Bodies
<1>1. <<>> \in [{} -> Settings]
  <2>1. <<>> \in Seq(Settings) /\ Len(<<>>) = 0
    BY EmptySeq
  <2>2. <<>> \in [1..Len(<<>>) -> Settings]
    BY <2>1, LenProperties
  <2>3. 1..Len(<<>>) = {}
    BY <2>1
  <2> QED
    BY <2>2, <2>3
<1> QED
  BY <1>1 DEF Bodies

\* The defaults are a document.
LEMMA AllOffIsADocument == AllOff \in Documents
BY OffAssumption DEF AllOff, Documents

\* What a PUT makes of a document is one.
LEMMA MergeIsADocument ==
  ASSUME NEW doc \in Documents, NEW body \in Bodies
  PROVE  Merge(doc, body) \in Documents
<1>1. PICK S \in SUBSET Fields : body \in [S -> Settings]
  BY DEF Bodies
<1> QED
  BY <1>1 DEF Merge, Documents

\* A call that is not in progress has the record of one.
LEMMA FreshIsProgress == Fresh \in Progress
BY NoBody, AllOffIsADocument DEF Fresh, Progress, Kinds, Steps

\* What a Get leaves of a call.
LEMMA AfterGetIsProgress ==
  ASSUME NEW k \in Progress, NEW d \in Documents
  PROVE  /\ AfterGet(k, d) \in Progress
         /\ k.kind = "put" =>
              /\ AfterGet(k, d).kind = "put" /\ AfterGet(k, d).step = "save"
              /\ AfterGet(k, d).doc = d /\ AfterGet(k, d).age = k.age
         /\ k.kind # "put" => AfterGet(k, d) = Fresh
BY FreshIsProgress DEF AfterGet, Progress, Steps

\* How a call that misses starts.
Missing(kind, body) == [Fresh EXCEPT !.kind = kind, !.body = body, !.step = "query"]
Found(kind, body) == [Fresh EXCEPT !.kind = kind, !.body = body]

\* The records of calls that begin, with and without a cached document.
LEMMA StartsInProgress ==
  ASSUME NEW kind \in Kinds, NEW body \in Bodies
  PROVE  /\ Missing(kind, body) \in Progress /\ Found(kind, body) \in Progress
         /\ Missing(kind, body).kind = kind /\ Missing(kind, body).step = "query"
         /\ Missing(kind, body).age = 0
         /\ Found(kind, body).kind = kind /\ Found(kind, body).age = 0
BY FreshIsProgress DEF Missing, Found, Progress, Steps, Fresh

\* Hit or miss: what a call that begins with a Get is then.
LEMMA GetStarts ==
  ASSUME Types, NEW c \in Calls, NEW kind \in Kinds, NEW body \in Bodies,
         Hit(c, kind, body) \/ Miss(c, kind, body)
  PROVE  \E k \in Progress :
           /\ call' = [call EXCEPT ![c] = k]
           /\ \/ k.kind = kind /\ k.step = "query" /\ k.age = 0
              \/ k = Fresh /\ kind # "put"
              \/ /\ k.kind = "put" /\ k.step = "save" /\ kind = "put"
                 /\ k.age = 0 /\ \E e \in entry : k.doc = e.doc
<1>1. CASE Miss(c, kind, body)
  <2>1. call' = [call EXCEPT ![c] = Missing(kind, body)]
    BY <1>1 DEF Miss, Update, Missing
  <2> QED
    BY <2>1, StartsInProgress
<1>2. CASE Hit(c, kind, body)
  <2>1. PICK e \in entry : call' = [call EXCEPT ![c] = AfterGet(Found(kind, body), e.doc)]
    BY <1>2 DEF Hit, Update, Found
  <2>2. e.doc \in Documents
    BY DEF Types, Entries
  <2> DEFINE k == AfterGet(Found(kind, body), e.doc)
  <2>3. k \in Progress
    BY <2>2, StartsInProgress, AfterGetIsProgress
  <2>4. CASE kind = "put"
    <3>1. k.kind = "put" /\ k.step = "save" /\ k.doc = e.doc /\ k.age = 0
      BY <2>2, <2>4, StartsInProgress, AfterGetIsProgress
    <3> QED
      BY <2>1, <2>3, <2>4, <3>1
  <2>5. CASE kind # "put"
    <3>1. k = Fresh
      BY <2>2, <2>5, StartsInProgress, AfterGetIsProgress
    <3> QED
      BY <2>1, <2>3, <2>5, <3>1
  <2> QED
    BY <2>4, <2>5
<1> QED
  BY <1>1, <1>2


-----------------------------------------------------------------------------
\* One call moves.
LEMMA CallMoves ==
  ASSUME Types, NEW c \in Calls, NEW k \in Progress, Update(c, k)
  PROVE  /\ call' \in [Calls -> Progress] /\ call'[c] = k
         /\ \A d \in Calls \ {c} : call'[d] = call[d]
BY DEF Types, Update

\* Every action, but for the time it takes.
LEMMA TypesKept ==
  ASSUME Types, NEW c \in Calls, NEW body \in Bodies,
         Read(c) \/ Put(c, body) \/ Reset(c) \/ Serve(c) \/ Abandon(c)
  PROVE  Types'
<1>1. CASE Read(c) \/ Put(c, body)
  <2>1. UNCHANGED <<stored, entry, last>>
    BY <1>1 DEF Read, Put
  <2>2. call' \in [Calls -> Progress]
    <3>1. PICK kind \in Kinds, b \in Bodies : Hit(c, kind, b) \/ Miss(c, kind, b)
      BY <1>1, NoBody DEF Read, Put, Kinds
    <3>2. PICK k \in Progress : call' = [call EXCEPT ![c] = k]
      BY <3>1, GetStarts
    <3> QED
      BY <3>2 DEF Types
  <2> QED
    BY <2>1, <2>2 DEF Types
<1>2. CASE Reset(c)
  <2> DEFINE k == [Fresh EXCEPT !.kind = "reset", !.step = "save"]
  <2>1. k \in Progress
    BY FreshIsProgress DEF Progress, Kinds, Steps
  <2>2. Update(c, k) /\ UNCHANGED <<stored, entry, last>>
    BY <1>2 DEF Reset
  <2> QED
    BY <2>1, <2>2, CallMoves DEF Types
<1>3. CASE Query(c)
  <2> DEFINE k == [call[c] EXCEPT !.step = "fill", !.doc = stored]
  <2>1. k \in Progress
    BY DEF Types, Progress, Steps
  <2>2. Update(c, k) /\ UNCHANGED <<stored, entry, last>>
    BY <1>3 DEF Query
  <2> QED
    BY <2>1, <2>2, CallMoves DEF Types
<1>4. CASE Fill(c)
  <2>1. call[c] \in Progress /\ call[c].doc \in Documents
    BY DEF Types, Progress
  <2>2. call' \in [Calls -> Progress]
    BY <1>4, <2>1, AfterGetIsProgress, CallMoves DEF Fill
  <2>3. entry' \subseteq Entries
    <3>1. [doc |-> call[c].doc, age |-> 0] \in Entries
      BY <2>1 DEF Entries
    <3> QED
      BY <1>4, <3>1 DEF Fill, Types
  <2> QED
    BY <1>4, <2>2, <2>3 DEF Fill, Types
<1>5. CASE Save(c)
  <2> DEFINE saved == Merge(call[c].doc, call[c].body)
             k == [call[c] EXCEPT !.step = "invalidate"]
  <2>1. call[c].doc \in Documents /\ call[c].body \in Bodies
    BY DEF Types, Progress
  <2>2. saved \in Documents
    BY <2>1, MergeIsADocument
  <2>3. k \in Progress
    BY DEF Types, Progress, Steps
  <2>4. Update(c, k) /\ entry' = entry
    BY <1>5 DEF Save
  <2>5. stored' = saved /\ last' = [last EXCEPT ![stored] = 0, ![saved] = 0]
    BY <1>5 DEF Save
  <2> HIDE DEF saved, k
  <2>6. last' \in [Documents -> Nat] /\ last'[stored'] = 0
    BY <2>2, <2>5 DEF Types
  <2> QED
    BY <2>2, <2>3, <2>4, <2>5, <2>6, CallMoves DEF Types
<1>6. CASE Invalidate(c)
  <2> DEFINE k == [call[c] EXCEPT !.step = "done"]
  <2>1. k \in Progress
    BY DEF Types, Progress, Steps
  <2>2. Update(c, k) /\ UNCHANGED <<stored, last>> /\ entry' \subseteq Entries
    BY <1>6 DEF Invalidate, Types
  <2> QED
    BY <2>1, <2>2, CallMoves DEF Types
<1>7. CASE Abandon(c)
  <2> DEFINE k == [call[c] EXCEPT !.step = "done", !.failed = TRUE]
  <2>1. k \in Progress
    BY DEF Types, Progress, Steps
  <2>2. Update(c, Fresh) \/ Update(c, k)
    BY <1>7 DEF Abandon
  <2>3. UNCHANGED <<stored, entry, last>>
    BY <1>7 DEF Abandon
  <2> QED
    BY <2>1, <2>2, <2>3, FreshIsProgress, CallMoves DEF Types
<1> QED
  BY <1>1, <1>2, <1>3, <1>4, <1>5, <1>6, <1>7 DEF Serve


-----------------------------------------------------------------------------
(* How old what a call or the cache holds can be.  The row was read by the *)
(* call that fills the entry, no longer ago than the call has taken; what  *)
(* a PUT saves onto came from the entry, or from the row itself.           *)

InTime(k, ago) ==
  /\ k.age <= MaxStall
  /\ k.step = "fill" => ago[k.doc] <= k.age
  /\ k.step = "save" /\ k.kind = "put" => ago[k.doc] < TTL + MaxStall + k.age

EntryInTime(e, ago) == e.age < TTL /\ ago[e.doc] <= e.age + MaxStall

Timely ==
  /\ \A e \in entry : EntryInTime(e, last)
  /\ \A c \in Calls : InTime(call[c], last)

DemoInv == Types /\ Timely

\* A call that is not in progress has nothing that could be old.
LEMMA FreshIsInTime ==
  ASSUME NEW ago PROVE InTime(Fresh, ago)
BY TimesAssumption DEF InTime, Fresh

\* A write makes documents younger, and ages nothing.
LEMMA YoungerStaysInTime ==
  ASSUME NEW ago \in [Documents -> Nat], NEW now \in [Documents -> Nat],
         \A d \in Documents : now[d] <= ago[d]
  PROVE  /\ \A k \in Progress : InTime(k, ago) => InTime(k, now)
         /\ \A e \in Entries : EntryInTime(e, ago) => EntryInTime(e, now)
<1>1. TTL \in Nat /\ MaxStall \in Nat
  BY TimesAssumption
<1>2. ASSUME NEW k \in Progress, InTime(k, ago) PROVE InTime(k, now)
  <2>1. k.doc \in Documents /\ k.age \in Nat
    BY DEF Progress
  <2>2. ago[k.doc] \in Nat /\ now[k.doc] \in Nat /\ now[k.doc] <= ago[k.doc]
    BY <2>1
  <2> QED
    BY <1>1, <1>2, <2>1, <2>2 DEF InTime
<1>3. ASSUME NEW e \in Entries, EntryInTime(e, ago) PROVE EntryInTime(e, now)
  <2>1. e.doc \in Documents /\ e.age \in Nat
    BY DEF Entries
  <2>2. ago[e.doc] \in Nat /\ now[e.doc] \in Nat /\ now[e.doc] <= ago[e.doc]
    BY <2>1
  <2> QED
    BY <1>1, <1>3, <2>1, <2>2 DEF EntryInTime
<1> QED
  BY <1>2, <1>3

\* One call moves, and what it is then is in time.
LEMMA OneCallInTime ==
  ASSUME DemoInv, Types', NEW c \in Calls, NEW k \in Progress, Update(c, k),
         \A d \in Documents : last'[d] <= last[d], InTime(k, last'),
         \A e \in entry' : e \in entry \/ EntryInTime(e, last')
  PROVE  DemoInv'
<1>1. last \in [Documents -> Nat] /\ last' \in [Documents -> Nat]
  BY DEF DemoInv, Types
<1>2. \A d \in Calls : InTime(call'[d], last')
  <2> SUFFICES ASSUME NEW d \in Calls PROVE InTime(call'[d], last')
    OBVIOUS
  <2>1. CASE d = c
    BY <2>1, CallMoves DEF DemoInv
  <2>2. CASE d # c
    <3>1. call'[d] = call[d] /\ call[d] \in Progress
      BY <2>2, CallMoves DEF DemoInv, Types
    <3>2. InTime(call[d], last)
      BY DEF DemoInv, Timely
    <3> QED
      BY <1>1, <3>1, <3>2, YoungerStaysInTime
  <2> QED
    BY <2>1, <2>2
<1>3. \A e \in entry' : EntryInTime(e, last')
  <2>1. \A e \in entry : e \in Entries /\ EntryInTime(e, last)
    BY DEF DemoInv, Types, Timely
  <2> QED
    BY <1>1, <2>1, YoungerStaysInTime
<1> QED
  BY <1>2, <1>3 DEF DemoInv, Timely

\* The steps that touch neither the row nor the cache.
LEMMA DemoMoves ==
  ASSUME DemoInv, NEW c \in Calls, NEW body \in Bodies,
         Read(c) \/ Put(c, body) \/ Reset(c) \/ Serve(c) \/ Abandon(c)
  PROVE  DemoInv'
<1>1. Types'
  BY TypesKept DEF DemoInv
<1>2. call[c] \in Progress /\ InTime(call[c], last)
  BY DEF DemoInv, Types, Timely
<1>3. last \in [Documents -> Nat] /\ stored \in Documents /\ last[stored] = 0
  BY DEF DemoInv, Types
<1>4. TTL \in Nat \ {0} /\ MaxStall \in Nat
  BY TimesAssumption
<1>5. CASE Read(c) \/ Put(c, body)
  <2>1. last' = last /\ entry' = entry
    BY <1>5 DEF Read, Put
  <2>2. PICK kind \in Kinds, b \in Bodies : Hit(c, kind, b) \/ Miss(c, kind, b)
    BY <1>5, NoBody DEF Read, Put, Kinds
  <2>3. PICK k \in Progress :
          /\ call' = [call EXCEPT ![c] = k]
          /\ \/ k.kind = kind /\ k.step = "query" /\ k.age = 0
             \/ k = Fresh /\ kind # "put"
             \/ /\ k.kind = "put" /\ k.step = "save" /\ kind = "put"
                /\ k.age = 0 /\ \E e \in entry : k.doc = e.doc
    BY <2>2, GetStarts DEF DemoInv
  <2>4. InTime(k, last)
    <3>1. CASE k.step = "query" /\ k.age = 0
      BY <1>4, <3>1 DEF InTime
    <3>2. CASE k = Fresh
      BY <3>2, FreshIsInTime
    <3>3. CASE k.step = "save" /\ k.age = 0 /\ \E e \in entry : k.doc = e.doc
      <4>1. PICK e \in entry : k.doc = e.doc
        BY <3>3
      <4>2. e.age \in Nat /\ e.doc \in Documents /\ EntryInTime(e, last)
        BY DEF DemoInv, Types, Timely, Entries
      <4>3. last[k.doc] \in Nat
        BY <1>3, <4>1, <4>2
      <4> QED
        BY <1>4, <3>3, <4>1, <4>2, <4>3 DEF InTime, EntryInTime
    <3> QED
      BY <2>3, <3>1, <3>2, <3>3
  <2> QED
    <3>1. Update(c, k)
      BY <2>3 DEF Update
    <3>2. \A d \in Documents : last'[d] <= last[d]
      BY <1>3, <2>1
    <3>3. InTime(k, last') /\ \A e \in entry' : e \in entry
      BY <2>1, <2>4
    <3> QED
      BY <1>1, <3>1, <3>2, <3>3, OneCallInTime
<1>6. CASE Reset(c)
  <2> DEFINE k == [Fresh EXCEPT !.kind = "reset", !.step = "save"]
  <2>1. k \in Progress /\ k.kind = "reset" /\ k.step = "save" /\ k.age = 0
    BY FreshIsProgress DEF Progress, Kinds, Steps, Fresh
  <2>2. Update(c, k) /\ last' = last /\ entry' = entry
    BY <1>6 DEF Reset
  <2>3. InTime(k, last')
    <3> HIDE DEF k
    <3> QED
      BY <1>4, <2>1 DEF InTime
  <2> HIDE DEF k
  <2> QED
    BY <1>1, <1>3, <2>1, <2>2, <2>3, OneCallInTime
<1>7. CASE Query(c)
  <2> DEFINE k == [call[c] EXCEPT !.step = "fill", !.doc = stored]
  <2>1. k \in Progress /\ k.step = "fill" /\ k.doc = stored /\ k.age = call[c].age /\ k.age \in Nat
    BY <1>2, <1>3 DEF Progress, Steps
  <2>2. Update(c, k) /\ last' = last /\ entry' = entry
    BY <1>7 DEF Query
  <2> HIDE DEF k
  <2>3. InTime(k, last')
    BY <1>2, <1>3, <2>1, <2>2 DEF InTime
  <2> QED
    BY <1>1, <1>3, <2>1, <2>2, <2>3, OneCallInTime
<1>8. CASE Fill(c)
  <2> DEFINE k == AfterGet(call[c], call[c].doc)
  <2>1. /\ call[c].doc \in Documents /\ call[c].age \in Nat /\ call[c].age <= MaxStall
        /\ last[call[c].doc] \in Nat /\ last[call[c].doc] <= call[c].age
    BY <1>2, <1>3, <1>8 DEF Fill, InTime, Progress
  <2>2. Update(c, k) /\ last' = last
    BY <1>8 DEF Fill
  <2>3. k \in Progress /\ InTime(k, last)
    <3>1. CASE call[c].kind = "put"
      <4>1. k \in Progress /\ k.step = "save" /\ k.doc = call[c].doc /\ k.age = call[c].age
        BY <1>2, <2>1, <3>1, AfterGetIsProgress
      <4> HIDE DEF k
      <4> QED
        BY <1>4, <2>1, <4>1 DEF InTime
    <3>2. CASE call[c].kind # "put"
      BY <1>2, <2>1, <3>2, AfterGetIsProgress, FreshIsInTime
    <3> QED
      BY <3>1, <3>2
  <2>4. \A e \in entry' : e \in entry \/ EntryInTime(e, last')
    <3>1. EntryInTime([doc |-> call[c].doc, age |-> 0], last)
      BY <1>4, <2>1 DEF EntryInTime
    <3> QED
      BY <1>8, <2>2, <3>1 DEF Fill
  <2> HIDE DEF k
  <2> QED
    BY <1>1, <1>3, <2>2, <2>3, <2>4, OneCallInTime
<1>9. CASE Save(c) \/ Invalidate(c) \/ Abandon(c)
  <2>1. \A d \in Documents : last'[d] <= last[d]
    <3>1. CASE last' = last
      BY <1>3, <3>1
    <3>2. CASE \E saved : last' = [last EXCEPT ![stored] = 0, ![saved] = 0]
      BY <1>3, <3>2
    <3> QED
      BY <1>9, <3>1, <3>2 DEF Save, Invalidate, Abandon
  <2>2. entry' \subseteq entry
    BY <1>9 DEF Save, Invalidate, Abandon
  <2>3. PICK k \in Progress :
          Update(c, k) /\ (k = Fresh \/ (k.age = call[c].age /\ k.step \in {"invalidate", "done"}))
    <3>1. \A step \in {"invalidate", "done"} : [call[c] EXCEPT !.step = step] \in Progress
      BY <1>2 DEF Progress, Steps
    <3>2. [call[c] EXCEPT !.step = "done", !.failed = TRUE] \in Progress
      BY <1>2 DEF Progress, Steps
    <3>3. CASE Save(c)
      BY <1>2, <3>1, <3>3 DEF Save, Progress
    <3>4. CASE Invalidate(c)
      BY <1>2, <3>1, <3>4 DEF Invalidate, Progress
    <3>5. CASE Abandon(c)
      BY <1>2, <3>2, <3>5, FreshIsProgress DEF Abandon, Progress
    <3> QED
      BY <1>9, <3>3, <3>4, <3>5
  <2>4. InTime(k, last')
    BY <1>2, <2>3, FreshIsInTime DEF InTime
  <2> QED
    BY <1>1, <2>1, <2>2, <2>3, <2>4, OneCallInTime
<1> QED
  BY <1>5, <1>6, <1>7, <1>8, <1>9 DEF Serve


\* A tick ages all there is by one at most.
LEMMA TickKeeps == DemoInv /\ Tick => DemoInv'
<1> SUFFICES ASSUME DemoInv, Tick PROVE DemoInv'
  OBVIOUS
<1>1. TTL \in Nat \ {0} /\ MaxStall \in Nat
  BY TimesAssumption
<1>2. last \in [Documents -> Nat] /\ stored \in Documents /\ last[stored] = 0
  BY DEF DemoInv, Types
<1>3. /\ stored' = stored
      /\ last' \in [Documents -> Nat] /\ last'[stored] = 0
      /\ \A d \in Documents : last'[d] <= last[d] + 1
  BY <1>2 DEF Tick
<1>4. ASSUME NEW e \in entry'
      PROVE  e \in Entries /\ EntryInTime(e, last')
  <2>1. PICK x \in entry : x.age + 1 < TTL /\ e = [x EXCEPT !.age = @ + 1]
    BY <1>4 DEF Tick, Aged
  <2>2. x \in Entries /\ EntryInTime(x, last)
    BY DEF DemoInv, Types, Timely
  <2>3. /\ x.doc \in Documents /\ x.age \in Nat
        /\ e \in Entries /\ e.doc = x.doc /\ e.age = x.age + 1
    BY <2>1, <2>2 DEF Entries
  <2>4. last[x.doc] \in Nat /\ last'[x.doc] \in Nat /\ last'[x.doc] <= last[x.doc] + 1
    BY <1>2, <1>3, <2>3
  <2> QED
    BY <1>1, <2>1, <2>2, <2>3, <2>4 DEF EntryInTime
<1>5. ASSUME NEW c \in Calls
      PROVE  call'[c] \in Progress /\ InTime(call'[c], last')
  <2>1. call[c] \in Progress /\ InTime(call[c], last)
    BY DEF DemoInv, Types, Timely
  <2>2. CASE ~InProgress(c)
    <3>1. call'[c] = call[c] /\ call[c].step \in {"new", "done"}
      BY <2>2 DEF Tick, InProgress
    <3> QED
      BY <2>1, <3>1 DEF InTime
  <2>3. CASE InProgress(c)
    <3>1. call'[c] = [call[c] EXCEPT !.age = @ + 1] /\ call[c].age < MaxStall
      BY <2>3 DEF Tick
    <3> DEFINE k == [call[c] EXCEPT !.age = @ + 1]
    <3>2. /\ call[c].doc \in Documents /\ call[c].age \in Nat
          /\ k \in Progress /\ k.doc = call[c].doc /\ k.age = call[c].age + 1
          /\ k.step = call[c].step /\ k.kind = call[c].kind
      BY <2>1 DEF Progress
    <3>3. /\ last[call[c].doc] \in Nat /\ last'[call[c].doc] \in Nat
          /\ last'[call[c].doc] <= last[call[c].doc] + 1
      BY <1>2, <1>3, <3>2
    <3> HIDE DEF k
    <3>4. InTime(k, last')
      BY <1>1, <2>1, <3>1, <3>2, <3>3 DEF InTime
    <3> QED
      BY <3>1, <3>2, <3>4 DEF k
  <2> QED
    BY <2>2, <2>3
<1>6. call' \in [Calls -> Progress]
  <2>1. call' = [c \in Calls |-> call'[c]]
    BY DEF Tick
  <2> QED
    BY <1>5, <2>1
<1> QED
  BY <1>2, <1>3, <1>4, <1>5, <1>6 DEF DemoInv, Types, Timely

\* No entry, and no call in progress.
LEMMA DemoStarts == Init => DemoInv
<1> SUFFICES ASSUME Init PROVE DemoInv
  OBVIOUS
<1>1. Horizon + 1 \in Nat
  BY TimesAssumption DEF Horizon
<1>2. last \in [Documents -> Nat] /\ last[stored] = 0
  BY <1>1, AllOffIsADocument DEF Init
<1>3. Types
  BY <1>2, AllOffIsADocument, FreshIsProgress DEF Init, Types
<1>4. \A c \in Calls : InTime(call[c], last)
  BY FreshIsInTime DEF Init
<1> QED
  BY <1>3, <1>4 DEF Init, DemoInv, Timely

\* Every step of the calls and of time keeps the invariant.
LEMMA DemoNext == DemoInv /\ [Next]_vars => DemoInv'
<1> SUFFICES ASSUME DemoInv, [Next]_vars PROVE DemoInv'
  OBVIOUS
<1>1. CASE UNCHANGED vars
  BY <1>1 DEF vars, DemoInv, Types, Timely
<1>2. ASSUME NEW c \in Calls,
             Read(c) \/ Reset(c) \/ Serve(c) \/ Abandon(c) \/ \E body \in Bodies : Put(c, body)
      PROVE  DemoInv'
  BY <1>2, NoBody, DemoMoves
<1> QED
  BY <1>1, <1>2, TickKeeps DEF Next

\* For every TTL, stall, and number of calls and failures the inductive invariant
\* of the demo controls holds.
THEOREM DemoInvariance == Spec => []DemoInv
BY DemoStarts, DemoNext, PTL DEF Spec

\* For any number of calls, in any order, and however many invalidations fail:
\* what is served or saved onto is no older than the TTL and the time of one
\* call.
THEOREM StalenessBound == Spec => []StalenessIsBounded
<1>1. DemoInv => StalenessIsBounded
  BY DEF DemoInv, Timely, InTime, EntryInTime, StalenessIsBounded
<1> QED
  BY <1>1, DemoInvariance, PTL


-----------------------------------------------------------------------------
(* The scenario.  Until the client gives up on a PUT, what is written is   *)
(* what the client waits for; so the reset, which it sends last, is the    *)
(* last to write.                                                          *)

Writes(k) == k.step \notin {"new", "done"} /\ k.kind \in {"put", "reset"}

OnlyReadersRead == \A c \in Calls \ Own : call[c].kind = "get"

OnlyWritersSave == \A c \in Calls : call[c].step = "save" => call[c].kind \in {"put", "reset"}

WaitsForOne ==
  IF client \in {"put", "reset"} THEN \E c \in Own : request = {c} ELSE request = {}

WaitsForWrites ==
  givenUp = {} => \A c \in Calls : Writes(call[c]) => c \in request \/ (client = "done" /\ warned)

\* The reset saves the zero document, and when it has, nothing else is saved.
IsReset(k) ==
  /\ k.doc = AllOff /\ k.body = <<>> /\ k.kind = "reset"
  /\ k.step \in {"save", "invalidate", "done"}
HasSaved(k) == k.step = "invalidate" \/ (k.step = "done" /\ ~k.failed)

ResetIsLast ==
  client = "reset" => \A c \in request :
    /\ IsReset(call[c])
    /\ givenUp = {} /\ HasSaved(call[c]) => stored = AllOff

ScriptInv == phase \in 1..Len(Script) /\ client \in ClientSteps

IncidentInv ==
  /\ Types /\ ScriptInv
  /\ OnlyReadersRead /\ OnlyWritersSave /\ WaitsForOne /\ WaitsForWrites
  /\ ResetIsLast /\ ResetsUnlessGivenUp

\* The phases of the scenario are PUTs.
LEMMA ScriptIsBodies == \A n \in 1..Len(Script) : Script[n] \in Bodies
<1>1. \A body \in Documents : body \in Bodies
  BY DEF Documents, Bodies
<1>2. [f \in Fields |-> Fault] \in Documents
  BY IncidentAssumption DEF Documents
<1> QED
  BY <1>1, <1>2, AllOffIsADocument DEF Script

\* A reset is a PUT of nothing on top of the defaults.
LEMMA MergeOfNothing == Merge(AllOff, <<>>) = AllOff
<1>1. DOMAIN <<>> = {}
  OBVIOUS
<1> QED
  BY <1>1 DEF Merge, AllOff

\* Before the first phase nobody writes.
LEMMA IncidentStarts == IncidentInit => IncidentInv
<1> SUFFICES ASSUME IncidentInit PROVE IncidentInv
  OBVIOUS
<1>1. Types
  BY DemoStarts DEF IncidentInit, DemoInv
<1>2. \A c \in Calls : call[c] = Fresh
  BY DEF IncidentInit, Init
<1>3. Fresh.kind = "get" /\ Fresh.step = "new"
  BY DEF Fresh
<1>4. ScriptInv
  BY DEF IncidentInit, ScriptInv, Script, ClientSteps
<1> QED
  BY <1>1, <1>2, <1>3, <1>4 DEF IncidentInit, IncidentInv, OnlyReadersRead, OnlyWritersSave,
     WaitsForOne, WaitsForWrites, Writes, ResetIsLast, ResetsUnlessGivenUp

\* The client sends a request: PUT or reset.
LEMMA SetControlsKeeps ==
  ASSUME IncidentInv, NEW c \in Own, SetControls(c)
  PROVE  IncidentInv'
<1>1. c \in Calls /\ Script[phase] \in Bodies
  BY IncidentAssumption, ScriptIsBodies DEF IncidentInv, ScriptInv
<1>2. Put(c, Script[phase]) /\ client = "phase" /\ client' = "put" /\ request' = {c}
      /\ UNCHANGED <<phase, warned, givenUp, stored>>
  BY DEF SetControls, Put
<1>3. Types'
  BY <1>1, <1>2, TypesKept DEF IncidentInv
<1>4. PICK k \in Progress : Update(c, k) /\ (k.step = "query" \/ (k.step = "save" /\ k.kind = "put"))
  <2>1. Hit(c, "put", Script[phase]) \/ Miss(c, "put", Script[phase])
    BY <1>2 DEF Put
  <2> QED
    BY <1>1, <2>1, GetStarts DEF IncidentInv, Kinds, Update
<1>5. call'[c] = k /\ \A d \in Calls \ {c} : call'[d] = call[d]
  BY <1>1, <1>4, CallMoves DEF IncidentInv
<1>6. OnlyReadersRead' /\ OnlyWritersSave'
  BY <1>4, <1>5 DEF IncidentInv, OnlyReadersRead, OnlyWritersSave
<1>7. WaitsForOne' /\ WaitsForWrites'
  BY <1>2, <1>5 DEF IncidentInv, WaitsForOne, WaitsForWrites
<1>8. ScriptInv'
  BY <1>2 DEF IncidentInv, ScriptInv, ClientSteps
<1> QED
  BY <1>2, <1>3, <1>6, <1>7, <1>8 DEF IncidentInv, ResetIsLast, ResetsUnlessGivenUp

\* The client sends its reset on its way out.
LEMMA ResetControlsKeeps ==
  ASSUME IncidentInv, NEW c \in Own, ResetControls(c)
  PROVE  IncidentInv'
<1>1. c \in Calls
  BY IncidentAssumption
<1>2. Reset(c) /\ client = "leaving" /\ client' = "reset" /\ request' = {c}
      /\ UNCHANGED <<phase, warned, givenUp, stored>>
  BY DEF ResetControls, Reset
<1>3. Types'
  BY <1>1, <1>2, NoBody, TypesKept DEF IncidentInv
<1> DEFINE k == [Fresh EXCEPT !.kind = "reset", !.step = "save"]
<1>4. k \in Progress /\ k.kind = "reset" /\ k.step = "save" /\ k.doc = AllOff /\ k.body = <<>>
  BY FreshIsProgress DEF Progress, Kinds, Steps, Fresh
<1>5. Update(c, k)
  BY <1>2 DEF Reset
<1> HIDE DEF k
<1>6. call'[c] = k /\ \A d \in Calls \ {c} : call'[d] = call[d]
  BY <1>1, <1>4, <1>5, CallMoves DEF IncidentInv
<1>7. OnlyReadersRead' /\ OnlyWritersSave'
  BY <1>4, <1>6 DEF IncidentInv, OnlyReadersRead, OnlyWritersSave
<1>8. WaitsForOne' /\ WaitsForWrites'
  BY <1>2, <1>6 DEF IncidentInv, WaitsForOne, WaitsForWrites
<1>9. ResetIsLast'
  BY <1>2, <1>4, <1>6 DEF ResetIsLast, IsReset, HasSaved
<1>10. ScriptInv'
  BY <1>2 DEF IncidentInv, ScriptInv, ClientSteps
<1> QED
  BY <1>2, <1>3, <1>7, <1>8, <1>9, <1>10 DEF IncidentInv, ResetsUnlessGivenUp

\* The client's own steps: an answer, or the end of waiting for one.
LEMMA ClientKeeps ==
  ASSUME IncidentInv, PhaseStarts \/ PutFails \/ PhaseEnds \/ Interrupted \/ ResetEnds
  PROVE  IncidentInv'
<1>1. UNCHANGED vars
  BY DEF PhaseStarts, PutFails, PhaseEnds, Interrupted, ResetEnds
<1>2. Types' /\ OnlyReadersRead' /\ OnlyWritersSave' /\ stored' = stored /\ call' = call
  BY <1>1 DEF vars, IncidentInv, Types, OnlyReadersRead, OnlyWritersSave
<1>3. ScriptInv'
  <2>1. Len(Script) \in Nat /\ phase \in 1..Len(Script)
    BY DEF IncidentInv, ScriptInv, Script
  <2>2. phase' = phase \/ (phase < Len(Script) /\ phase' = phase + 1)
    BY DEF PhaseStarts, PutFails, PhaseEnds, Interrupted, ResetEnds
  <2>3. phase' \in 1..Len(Script)
    BY <2>1, <2>2
  <2>4. client' \in ClientSteps
    BY DEF PhaseStarts, PutFails, PhaseEnds, Interrupted, ResetEnds, ClientSteps
  <2> QED
    BY <2>3, <2>4 DEF ScriptInv, Script
<1>4. \A failed \in BOOLEAN : Answered(failed) => \A c \in request : ~Writes(call[c])
  <2>1. client \in {"put", "reset"} => \E c \in Own : request = {c}
    BY DEF IncidentInv, WaitsForOne
  <2>2. client \notin {"put", "reset"} => request = {}
    BY DEF IncidentInv, WaitsForOne
  <2> QED
    BY <2>1, <2>2 DEF Answered, Writes
<1>5. CASE PhaseStarts
  <2>1. client = "put" /\ client' = "playing" /\ request' = {} /\ givenUp' = givenUp
        /\ \A c \in request : ~Writes(call[c])
    BY <1>4, <1>5 DEF PhaseStarts
  <2> QED
    BY <1>2, <1>3, <2>1 DEF IncidentInv, WaitsForOne, WaitsForWrites, ResetIsLast,
       ResetsUnlessGivenUp
<1>6. CASE PutFails
  <2>1. client = "put" /\ client' = "leaving" /\ request' = {}
    BY <1>6 DEF PutFails
  <2>2. givenUp' = {} => givenUp = {} /\ \A c \in request : ~Writes(call[c])
    <3>1. request # {}
      BY <2>1 DEF IncidentInv, WaitsForOne
    <3> QED
      BY <1>4, <1>6, <3>1 DEF PutFails
  <2> QED
    BY <1>2, <1>3, <2>1, <2>2 DEF IncidentInv, WaitsForOne, WaitsForWrites, ResetIsLast,
       ResetsUnlessGivenUp
<1>7. CASE PhaseEnds \/ Interrupted
  <2>1. client \in {"phase", "playing"} /\ client' \in {"phase", "leaving"}
        /\ request' = request /\ givenUp' = givenUp
    BY <1>7 DEF PhaseEnds, Interrupted
  <2> QED
    BY <1>2, <1>3, <2>1 DEF IncidentInv, WaitsForOne, WaitsForWrites, ResetIsLast,
       ResetsUnlessGivenUp
<1>8. CASE ResetEnds
  <2>1. client = "reset" /\ client' = "done" /\ request' = {} /\ givenUp' = givenUp
    BY <1>8 DEF ResetEnds
  <2>2. ~warned' => /\ \A c \in request : ~Writes(call[c])
                    /\ \E c \in request : HasSaved(call[c])
    BY <1>4, <1>8 DEF ResetEnds, Answered, HasSaved
  <2>3. givenUp = {} /\ ~warned' => stored = AllOff
    BY <2>1, <2>2 DEF IncidentInv, ResetIsLast
  <2>4. WaitsForWrites'
    BY <1>2, <2>1, <2>2 DEF IncidentInv, WaitsForWrites
  <2> QED
    BY <1>2, <1>3, <2>1, <2>3, <2>4 DEF IncidentInv, WaitsForOne, ResetIsLast,
       ResetsUnlessGivenUp
<1> QED
  BY <1>5, <1>6, <1>7, <1>8


\* A call of the application's moves: what k has become of it.
Moved(c, k) ==
  /\ k \in Progress /\ Update(c, k)
  /\ k.kind \in {call[c].kind, "get"} /\ (k.step = "save" => k.kind \in {"put", "reset"})
  /\ Writes(k) => Writes(call[c])
  /\ IsReset(call[c]) => IsReset(k)
  /\ \/ stored' = stored /\ (HasSaved(k) => HasSaved(call[c]))
     \/ call[c].step = "save" /\ stored' = Merge(call[c].doc, call[c].body)

\* A step of a call that begins no write moves its record on, and changes the row
\* at most by its save.
LEMMA CallServed ==
  ASSUME Types, NEW c \in Calls, Serve(c) \/ Abandon(c) \/ Read(c)
  PROVE  \E k : Moved(c, k)
<1>1. call[c] \in Progress /\ stored \in Documents
  BY DEF Types
<1>2. /\ Fresh \in Progress /\ Fresh.kind = "get" /\ Fresh.step = "new"
      /\ ~Writes(Fresh) /\ ~HasSaved(Fresh)
  BY FreshIsProgress DEF Fresh, Writes, HasSaved
<1>3. CASE Read(c)
  <2>1. stored' = stored /\ call[c].step = "new" /\ (Hit(c, "get", <<>>) \/ Miss(c, "get", <<>>))
    BY <1>3 DEF Read
  <2>2. PICK k \in Progress :
          call' = [call EXCEPT ![c] = k] /\ ((k.kind = "get" /\ k.step = "query") \/ k = Fresh)
    BY <2>1, NoBody, GetStarts DEF Kinds
  <2>3. k.kind = "get" /\ k.step # "save" /\ ~Writes(k) /\ ~HasSaved(k)
    BY <1>2, <2>2 DEF Writes, HasSaved
  <2>4. Moved(c, k)
    BY <2>1, <2>2, <2>3 DEF Moved, Update, IsReset
  <2> QED
    BY <2>4
<1>4. CASE Query(c)
  <2> DEFINE k == [call[c] EXCEPT !.step = "fill", !.doc = stored]
  <2>1. k \in Progress /\ k.step = "fill" /\ k.kind = call[c].kind
    BY <1>1 DEF Progress, Steps
  <2>2. Update(c, k) /\ stored' = stored /\ call[c].step = "query"
    BY <1>4 DEF Query
  <2> HIDE DEF k
  <2>3. Moved(c, k)
    BY <2>1, <2>2 DEF Moved, Writes, HasSaved, IsReset
  <2> QED
    BY <2>3
<1>5. CASE Fill(c)
  <2> DEFINE k == AfterGet(call[c], call[c].doc)
  <2>1. Update(c, k) /\ stored' = stored /\ call[c].step = "fill"
    BY <1>5 DEF Fill
  <2>2. k \in Progress /\ ((k.kind = "put" /\ k.step = "save" /\ call[c].kind = "put") \/ k = Fresh)
    <3>1. call[c].doc \in Documents
      BY <1>1 DEF Progress
    <3> QED
      BY <1>1, <3>1, AfterGetIsProgress
  <2> HIDE DEF k
  <2>3. Moved(c, k)
    BY <1>2, <2>1, <2>2 DEF Moved, Writes, HasSaved, IsReset
  <2> QED
    BY <2>3
<1>6. CASE Save(c)
  <2> DEFINE k == [call[c] EXCEPT !.step = "invalidate"]
  <2>1. k \in Progress /\ k.step = "invalidate" /\ k.kind = call[c].kind
        /\ k.doc = call[c].doc /\ k.body = call[c].body
    BY <1>1 DEF Progress, Steps
  <2>2. Update(c, k) /\ call[c].step = "save" /\ stored' = Merge(call[c].doc, call[c].body)
    BY <1>6 DEF Save
  <2> HIDE DEF k
  <2>3. Moved(c, k)
    BY <2>1, <2>2 DEF Moved, Writes, IsReset
  <2> QED
    BY <2>3
<1>7. CASE Invalidate(c)
  <2> DEFINE k == [call[c] EXCEPT !.step = "done"]
  <2>1. k \in Progress /\ k.step = "done" /\ k.kind = call[c].kind
        /\ k.doc = call[c].doc /\ k.body = call[c].body
    BY <1>1 DEF Progress, Steps
  <2>2. Update(c, k) /\ call[c].step = "invalidate" /\ stored' = stored
    BY <1>7 DEF Invalidate
  <2> HIDE DEF k
  <2>3. Moved(c, k)
    BY <2>1, <2>2 DEF Moved, Writes, HasSaved, IsReset
  <2> QED
    BY <2>3
<1>8. CASE Abandon(c) /\ call[c].kind = "get"
  <2>1. Moved(c, Fresh)
    BY <1>2, <1>8 DEF Abandon, Moved, IsReset
  <2> QED
    BY <2>1
<1>9. CASE Abandon(c) /\ call[c].kind # "get"
  <2> DEFINE k == [call[c] EXCEPT !.step = "done", !.failed = TRUE]
  <2>1. k \in Progress /\ k.step = "done" /\ k.kind = call[c].kind /\ k.failed
        /\ k.doc = call[c].doc /\ k.body = call[c].body
    BY <1>1 DEF Progress, Steps
  <2>2. Update(c, k) /\ stored' = stored
    BY <1>9 DEF Abandon
  <2> HIDE DEF k
  <2>3. Moved(c, k)
    BY <2>1, <2>2 DEF Moved, Writes, HasSaved, IsReset
  <2> QED
    BY <2>3
<1> QED
  BY <1>3, <1>4, <1>5, <1>6, <1>7, <1>8, <1>9 DEF Serve

\* What the application does with a call, as the scenario sees it.
LEMMA ServingKeeps ==
  ASSUME IncidentInv, NEW c \in Calls, Serving(c)
  PROVE  IncidentInv'
<1>1. /\ Serve(c) \/ Abandon(c) \/ (c \notin Own /\ Read(c))
      /\ UNCHANGED clientVars
  BY DEF Serving
<1>2. UNCHANGED <<client, phase, request, warned, givenUp>>
  BY <1>1 DEF clientVars
<1>3. Types'
  BY <1>1, NoBody, TypesKept DEF IncidentInv
<1>4. PICK k : Moved(c, k)
  BY <1>1, CallServed DEF IncidentInv
<1>5. call'[c] = k /\ \A d \in Calls \ {c} : call'[d] = call[d]
  BY <1>4, CallMoves DEF IncidentInv, Moved
<1>6. OnlyReadersRead' /\ OnlyWritersSave'
  BY <1>4, <1>5 DEF IncidentInv, OnlyReadersRead, OnlyWritersSave, Moved
<1>7. ScriptInv' /\ WaitsForOne'
  BY <1>2 DEF IncidentInv, ScriptInv, WaitsForOne, Script
<1>8. WaitsForWrites'
  BY <1>2, <1>4, <1>5 DEF IncidentInv, WaitsForWrites, Moved
\* Who saves is who the client waits for.
<1>9. ASSUME stored' # stored, givenUp = {}
      PROVE  /\ call[c].step = "save" /\ stored' = Merge(call[c].doc, call[c].body)
             /\ c \in request \/ (client = "done" /\ warned)
  <2>1. call[c].step = "save" /\ stored' = Merge(call[c].doc, call[c].body)
    BY <1>4, <1>9 DEF Moved
  <2>2. Writes(call[c])
    BY <2>1 DEF IncidentInv, OnlyWritersSave, Writes
  <2> QED
    BY <1>9, <2>1, <2>2 DEF IncidentInv, WaitsForWrites
<1>10. ResetIsLast'
  <2> SUFFICES ASSUME client = "reset", NEW d \in request
               PROVE  /\ IsReset(call'[d])
                      /\ givenUp = {} /\ HasSaved(call'[d]) => stored' = AllOff
    BY <1>2 DEF ResetIsLast, IsReset, HasSaved
  <2>1. d \in Calls /\ request = {d} /\ IsReset(call[d])
    BY IncidentAssumption DEF IncidentInv, WaitsForOne, ResetIsLast
  <2>2. IsReset(call'[d])
    BY <1>4, <1>5, <2>1 DEF Moved
  <2>3. ASSUME givenUp = {}, HasSaved(call'[d])
        PROVE  stored' = AllOff
    <3>1. CASE stored' # stored
      <4>1. c = d /\ stored' = Merge(call[d].doc, call[d].body)
        BY <1>9, <2>1, <2>3, <3>1
      <4> QED
        BY <2>1, <4>1, MergeOfNothing DEF IsReset
    <3>2. CASE stored' = stored /\ (c = d => HasSaved(call[d]))
      BY <1>5, <2>1, <2>3, <3>2 DEF IncidentInv, ResetIsLast
    <3>3. CASE stored' = stored /\ c = d /\ ~HasSaved(call[d])
      <4>1. call[d].step = "save" /\ stored' = Merge(call[d].doc, call[d].body)
        BY <1>4, <1>5, <2>3, <3>3 DEF Moved
      <4> QED
        BY <2>1, <4>1, MergeOfNothing DEF IsReset
    <3> QED
      BY <3>1, <3>2, <3>3
  <2> QED
    BY <2>2, <2>3
<1>11. ResetsUnlessGivenUp'
  <2> SUFFICES ASSUME client = "done", ~warned, givenUp = {} PROVE stored' = AllOff
    BY <1>2 DEF ResetsUnlessGivenUp
  <2>1. request = {} /\ stored = AllOff
    BY DEF IncidentInv, WaitsForOne, ResetsUnlessGivenUp
  <2> QED
    BY <1>9, <2>1
<1> QED
  BY <1>3, <1>6, <1>7, <1>8, <1>10, <1>11 DEF IncidentInv

\* Every step of the scenario and of the application keeps the invariant.
LEMMA IncidentStep == IncidentInv /\ [IncidentNext]_incidentVars => IncidentInv'
<1> SUFFICES ASSUME IncidentInv, [IncidentNext]_incidentVars PROVE IncidentInv'
  OBVIOUS
<1>1. CASE Client
  BY <1>1, SetControlsKeeps, ResetControlsKeeps, ClientKeeps DEF Client
<1>2. ASSUME NEW c \in Calls, Serving(c) PROVE IncidentInv'
  BY <1>2, ServingKeeps
<1>3. CASE Expiry \/ UNCHANGED incidentVars
  <2>1. UNCHANGED <<stored, call, last, clientVars>> /\ (entry' = {} \/ entry' = entry)
    BY <1>3 DEF Expiry, incidentVars, vars, clientVars
  <2> QED
    BY <2>1 DEF clientVars, IncidentInv, Types, ScriptInv, Script, OnlyReadersRead,
       OnlyWritersSave, WaitsForOne, WaitsForWrites, ResetIsLast, ResetsUnlessGivenUp
<1> QED
  BY <1>1, <1>2, <1>3 DEF IncidentNext, Over

\* For every script, number of calls and of failures the inductive invariant of the
\* scenario holds.
THEOREM IncidentInvariance == IncidentSpec => []IncidentInv
BY IncidentStarts, IncidentStep, PTL DEF IncidentSpec

\* For any number of readers and of calls that fail, at whatever point: when the
\* scenario is over without a warning, the controls are off, unless the client
\* has given up on a PUT.
THEOREM ScenarioResets == IncidentSpec => []ResetsUnlessGivenUp
<1>1. IncidentInv => ResetsUnlessGivenUp
  BY DEF IncidentInv
<1> QED
  BY <1>1, IncidentInvariance, PTL

=============================================================================
