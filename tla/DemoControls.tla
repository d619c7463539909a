---------------------------- MODULE DemoControls ----------------------------
(***************************************************************************)
(* The demo controls: one row of switches that inject faults, read through *)
(* a short-lived cache entry by every /api request and every job, and      *)
(* written by PUT (partial documents) and reset.  Time passes in ticks, of *)
(* which the cache TTL is a whole number.                                  *)
(***************************************************************************)
EXTENDS Naturals

CONSTANTS
  Fields,      \* the controls
  Settings,    \* the values of a control that Validate accepts, Off included
  Off,
  Calls,       \* the requests and jobs served at a time, one write each in a run
  TTL,         \* cacheTTL, in ticks
  MaxStall,    \* bound: ticks a call may take
  MaxFailures  \* bound: failed cache commands and abandoned calls

ASSUME OffAssumption == Off \in Settings
ASSUME TimesAssumption == TTL \in Nat \ {0} /\ MaxStall \in Nat /\ MaxFailures \in Nat

VARIABLES
  stored,   \* the demo_controls row
  entry,    \* the cache entry, if any, and its age
  call,     \* per call: its progress
  last,     \* history: ticks since the row last held this document
  failures

vars == <<stored, entry, call, last, failures>>

-----------------------------------------------------------------------------
Documents == [Fields -> Settings]
AllOff == [f \in Fields |-> Off]
Bodies == UNION {[S -> Settings] : S \in SUBSET Fields}

\* Nothing in the system keeps a document longer than this.
Horizon == TTL + 2 * MaxStall

\* Kinds of calls: "get" is a GET, the middleware or the worker's fault check.
Kinds == {"get", "put", "reset"}
Steps == {"new", "query", "fill", "save", "invalidate", "done"}
Fresh == [kind |-> "get", step |-> "new", doc |-> AllOff, body |-> <<>>, age |-> 0,
          failed |-> FALSE]

InProgress(c) == call[c].step \notin {"new", "done"}

Init ==
  /\ stored = AllOff
  /\ entry = {}
  /\ call = [c \in Calls |-> Fresh]
  /\ last = [d \in Documents |-> IF d = AllOff THEN 0 ELSE Horizon + 1]
  /\ failures = 0

Fails == failures < MaxFailures /\ failures' = failures + 1

-----------------------------------------------------------------------------
\* The JSON body is decoded onto the document.
Merge(doc, body) == [f \in Fields |-> IF f \in DOMAIN body THEN body[f] ELSE doc[f]]

\* What a call does with the document Get returned: a PUT decodes its body
\* onto it and saves the result.
AfterGet(k, d) ==
  IF k.kind = "put" THEN [k EXCEPT !.step = "save", !.doc = d]
  ELSE Fresh

Update(c, k) == call' = [call EXCEPT ![c] = k]

\* Service.Get: a hit, or the miss (an error of the cache is a miss).
Hit(c, kind, body) ==
  /\ \E e \in entry :
       Update(c, AfterGet([Fresh EXCEPT !.kind = kind, !.body = body], e.doc))
  /\ UNCHANGED failures

Miss(c, kind, body) ==
  /\ \/ entry = {} /\ UNCHANGED failures
     \/ Fails
  /\ Update(c, [Fresh EXCEPT !.kind = kind, !.body = body, !.step = "query"])

\* A Get of the document for its own sake, and the Get of a PUT.
Read(c) ==
  /\ call[c].step = "new"
  /\ Hit(c, "get", <<>>) \/ Miss(c, "get", <<>>)
  /\ UNCHANGED <<stored, entry, last>>

Put(c, body) ==
  /\ call[c].step = "new"
  /\ Hit(c, "put", body) \/ Miss(c, "put", body)
  /\ UNCHANGED <<stored, entry, last>>

\* The row is read; then the entry is set, whatever has happened in between.
Query(c) ==
  /\ call[c].step = "query"
  /\ Update(c, [call[c] EXCEPT !.step = "fill", !.doc = stored])
  /\ UNCHANGED <<stored, entry, last, failures>>

Fill(c) ==
  /\ call[c].step = "fill"
  /\ \/ entry' = {[doc |-> call[c].doc, age |-> 0]} /\ UNCHANGED failures
     \/ Fails /\ UNCHANGED entry
  /\ Update(c, AfterGet(call[c], call[c].doc))
  /\ UNCHANGED <<stored, last>>

\* Reset is an Update of the zero document, without reading anything.
Reset(c) ==
  /\ call[c].step = "new"
  /\ Update(c, [Fresh EXCEPT !.kind = "reset", !.step = "save"])
  /\ UNCHANGED <<stored, entry, last, failures>>

\* Service.Update: the row first, then the cache entry, best effort.
Save(c) ==
  LET saved == Merge(call[c].doc, call[c].body) IN
  /\ call[c].step = "save"
  /\ stored' = saved
  /\ last' = [last EXCEPT ![stored] = 0, ![saved] = 0]
  /\ Update(c, [call[c] EXCEPT !.step = "invalidate"])
  /\ UNCHANGED <<entry, failures>>

Invalidate(c) ==
  /\ call[c].step = "invalidate"
  /\ \/ entry' = {} /\ UNCHANGED failures
     \/ Fails /\ UNCHANGED entry
  /\ Update(c, [call[c] EXCEPT !.step = "done"])
  /\ UNCHANGED <<stored, last>>

\* A canceled request, an unreadable row, a body that is rejected.
Abandon(c) ==
  /\ InProgress(c)
  /\ Fails
  /\ Update(c, IF call[c].kind = "get" THEN Fresh
               ELSE [call[c] EXCEPT !.step = "done", !.failed = TRUE])
  /\ UNCHANGED <<stored, entry, last>>

\* Mutated form: the entry is set without a TTL.
AgedForever == entry

\* The entry expires when it has reached the TTL.
Aged == {[e EXCEPT !.age = @ + 1] : e \in {x \in entry : x.age + 1 < TTL}}

Tick ==
  /\ \A c \in Calls : InProgress(c) => call[c].age < MaxStall
  /\ entry' = Aged
  /\ call' = [c \in Calls |->
               IF InProgress(c) THEN [call[c] EXCEPT !.age = @ + 1] ELSE call[c]]
  /\ last' = [d \in Documents |->
               IF d = stored THEN 0 ELSE IF last[d] > Horizon THEN last[d] ELSE last[d] + 1]
  /\ UNCHANGED <<stored, failures>>

-----------------------------------------------------------------------------
Serve(c) == Query(c) \/ Fill(c) \/ Save(c) \/ Invalidate(c)

Next ==
  \/ \E c \in Calls :
       Read(c) \/ Reset(c) \/ Serve(c) \/ Abandon(c) \/ \E body \in Bodies : Put(c, body)
  \/ Tick

Spec == Init /\ [][Next]_vars

FairSpec == Spec /\ WF_vars(Tick) /\ \A c \in Calls : WF_vars(Serve(c))

-----------------------------------------------------------------------------
TypeOK ==
  /\ stored \in Documents
  /\ \A e \in entry : entry = {e} /\ e.doc \in Documents /\ e.age \in 0..(TTL - 1)
  /\ \A c \in Calls :
       /\ call[c].kind \in Kinds /\ call[c].step \in Steps
       /\ call[c].doc \in Documents /\ call[c].body \in Bodies /\ call[c].age \in 0..MaxStall
       /\ call[c].failed \in BOOLEAN
  /\ last \in [Documents -> 0..(Horizon + 1)] /\ last[stored] = 0
  /\ failures \in 0..MaxFailures

(***************************************************************************)
(* "The worker sees a change within 5 s" (cacheTTL): what the cache serves *)
(* was the row less than a TTL ago, give or take the time one call may     *)
(* take between reading the row and setting the entry, even when an        *)
(* invalidation failed or a slow reader set the entry after it.  A PUT     *)
(* saves onto a document that is no older than that when it starts.        *)
(***************************************************************************)
StalenessIsBounded ==
  /\ \A e \in entry : last[e.doc] <= e.age + MaxStall
  /\ \A c \in Calls : call[c].step = "save" /\ call[c].kind = "put" =>
       last[call[c].doc] < TTL + MaxStall + call[c].age

(***************************************************************************)
(* "A fault can always be switched off" (exempt): once the controls stay   *)
(* off in the row, every later reader sees them off.                       *)
(***************************************************************************)
OffIsSeen == <>[](stored = AllOff) => <>[](\A e \in entry : e.doc = AllOff)

=============================================================================
