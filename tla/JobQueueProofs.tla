--------------------------- MODULE JobQueueProofs ---------------------------
(***************************************************************************)
(* Proofs about JobQueue, for every number of workers, slots, jobs,        *)
(* attempts and faults.                                                    *)
(***************************************************************************)
EXTENDS JobQueue, FiniteSetTheorems, TLAPS

(***************************************************************************)
(* The inductive invariant.  NoSilentLoss is not inductive: a pending      *)
(* entry may leave the pending list because the stream trimmed it, so what *)
(* trimming has removed has to be tied to the length of the stream.        *)
(***************************************************************************)
Retention == trimmed = 0 \/ Len(log) - trimmed >= MaxLen

Accounted ==
  \A e \in Entries : e > delivered \/ e \in pel \/ e \in settled \/ e <= trimmed

GroupExists == ~group => delivered = 0 /\ \A w \in Workers : loop[w] = "down"

\* Only delivered entries are pending, acknowledged or handled.
Delivered ==
  /\ \A e \in pel : e <= delivered
  /\ \A e \in settled : e <= delivered
  /\ \A w \in Workers, s \in Slots :
       Busy(w, s) => slot[w][s].entry \in Entries /\ slot[w][s].entry <= delivered

\* A handle call that is about to acknowledge has finished its entry.
FinishedFirst ==
  /\ AckedIsFinished
  /\ \A w \in Workers, s \in Slots : At(w, s, "ack") => slot[w][s].entry \in finished

\* What keeps a second handle call away from an entry: it is not claimable.
Exclusive ==
  ~MayOverrun =>
    /\ \A e \in idle : ~Handling(e)
    /\ \A e \in settled : e \notin pel

IInv ==
  /\ TypeOK
  /\ Retention /\ Accounted /\ GroupExists /\ Delivered
  /\ FinishedFirst /\ Exclusive /\ SoleHandler

-----------------------------------------------------------------------------
\* Constants and the shape of a handle call.
LEMMA FreeNotBusy == Free.step = "free" /\ Free \in HandleCalls
  BY DEF Free, HandleCalls

\* The number of entries fetch asks for is a positive number.
LEMMA CountsPositive ==
  ASSUME NEW w \in Workers, NEW k \in Counts(w)
  PROVE  k \in Nat /\ k >= 1
<1>1. IsFiniteSet(FreeSlots(w))
  BY SlotsAssumption, FS_Subset DEF FreeSlots
<1>2. Cardinality(FreeSlots(w)) \in Nat
  BY <1>1, FS_CardinalityType
<1> QED BY <1>2 DEF Counts

\* What fetch asks XAUTOCLAIM for is pending, and what it gets is idle.
LEMMA ClaimReplyWithin ==
  ASSUME NEW k
  PROVE  /\ ClaimReply(k).gone \subseteq pel \cap 1..trimmed
         /\ ClaimReply(k).claimed \subseteq idle
  BY DEF ClaimReply, Oldest

\* XREADGROUP reads a contiguous range above everything delivered or trimmed.
LEMMA LastReadBounds ==
  ASSUME NEW k \in Nat, k >= 1,
         trimmed \in 0..Len(log), delivered \in 0..Len(log), Len(log) \in Nat
  PROVE  /\ LastRead(k) \in 0..Len(log)
         /\ delivered <= LastRead(k)
         /\ \A e \in NewEntries(k) : e \in Entries /\ delivered < e /\ trimmed < e
         /\ \A e \in NewEntries(k) : e <= LastRead(k)
         /\ \A e \in Entries : delivered < e /\ e <= LastRead(k) /\ trimmed < e
                                 => e \in NewEntries(k)
  BY DEF LastRead, LastUnreadable, NewEntries, Entries

(***************************************************************************)
(* Dispatch only fills free slots, each with a fresh handle call on an     *)
(* entry of S, and no entry of S twice.                                    *)
(***************************************************************************)
LEMMA DispatchEffect ==
  ASSUME slot \in [Workers -> [Slots -> HandleCalls]],
         NEW w \in Workers, NEW S \in SUBSET Entries, Dispatch(w, S)
  PROVE  /\ slot' \in [Workers -> [Slots -> HandleCalls]]
         /\ \A v \in Workers, s \in Slots : v # w => slot'[v][s] = slot[v][s]
         /\ \A s \in Slots :
              \/ slot'[w][s] = slot[w][s]
              \/ /\ ~Busy(w, s) /\ slot'[w][s].entry \in S
                 /\ slot'[w][s].step \in {"attempt", "deadletter"}
         /\ \A s, t \in Slots :
              /\ slot'[w][s] # slot[w][s] /\ slot'[w][t] # slot[w][t]
              /\ slot'[w][s].entry = slot'[w][t].entry
              => s = t
<1>1. PICK f \in [S -> FreeSlots(w)] :
        /\ \A a, b \in S : f[a] = f[b] => a = b
        /\ slot' = [slot EXCEPT ![w] =
                      [s \in Slots |-> IF \E e \in S : f[e] = s
                                       THEN Opened(CHOOSE e \in S : f[e] = s)
                                       ELSE slot[w][s]]]
  BY DEF Dispatch
<1> DEFINE at(s) == CHOOSE e \in S : f[e] = s
<1>2. \A v \in Workers, s \in Slots : v # w => slot'[v][s] = slot[v][s]
  BY <1>1
<1>3. \A s \in Slots : (\E e \in S : f[e] = s) =>
        at(s) \in S /\ f[at(s)] = s /\ slot'[w][s] = Opened(at(s)) /\ ~Busy(w, s)
  <2> TAKE s \in Slots
  <2> HAVE \E e \in S : f[e] = s
  <2>1. at(s) \in S /\ f[at(s)] = s
    OBVIOUS
  <2>2. slot'[w][s] = Opened(at(s))
    BY <1>1
  <2>3. s \in FreeSlots(w)
    BY <2>1, <1>1
  <2> QED BY <2>1, <2>2, <2>3 DEF FreeSlots
<1>4. \A s \in Slots : ~(\E e \in S : f[e] = s) => slot'[w][s] = slot[w][s]
  BY <1>1
<1>5. \A e \in S : /\ Opened(e) \in HandleCalls /\ Opened(e).entry = e
                   /\ Opened(e).step \in {"attempt", "deadletter"}
  BY AttemptsAssumption DEF Opened, HandleCalls, Steps, Entries
<1>6. slot' \in [Workers -> [Slots -> HandleCalls]]
  <2>1. \A s \in Slots : (IF \E e \in S : f[e] = s THEN Opened(at(s)) ELSE slot[w][s])
                            \in HandleCalls
    BY <1>3, <1>5
  <2>2. [s \in Slots |-> IF \E e \in S : f[e] = s THEN Opened(at(s)) ELSE slot[w][s]]
          \in [Slots -> HandleCalls]
    BY <2>1
  <2> QED BY <1>1, <2>2
<1>7. \A s, t \in Slots :
        /\ slot'[w][s] # slot[w][s] /\ slot'[w][t] # slot[w][t]
        /\ slot'[w][s].entry = slot'[w][t].entry
        => s = t
  BY <1>3, <1>4, <1>5
<1> HIDE DEF at
<1> QED BY <1>2, <1>3, <1>4, <1>5, <1>6, <1>7

-----------------------------------------------------------------------------

\* The initial state satisfies the invariant.
LEMMA InitInv == Init => IInv
<1> SUFFICES ASSUME Init PROVE IInv
  OBVIOUS
<1>1. Len(log) = 0 /\ Entries = {}
  BY DEF Init, Entries
<1>2. \A w \in Workers, s \in Slots : slot[w][s] = Free /\ ~Busy(w, s)
  BY FreeNotBusy DEF Init, Busy
<1>3. TypeOK
  <2>1. slot \in [Workers -> [Slots -> HandleCalls]]
    BY FreeNotBusy DEF Init
  <2>2. group \in BOOLEAN
    BY DEF Init
  <2>3. faults \in 0..MaxFaults /\ stops \in 0..MaxStops
    BY BoundsAssumption DEF Init
  <2>4. log \in Seq(Jobs) /\ trimmed \in 0..Len(log) /\ delivered \in 0..Len(log)
    BY <1>1 DEF Init
  <2>5. loop \in [Workers -> {"down", "claim", "read", "draining"}]
    BY DEF Init
  <2>6. pel \subseteq Entries /\ idle \subseteq pel
    BY DEF Init
  <2>7. finished \subseteq Entries /\ settled \subseteq Entries /\ dead \subseteq Entries
    BY DEF Init
  <2> QED BY <2>1, <2>2, <2>3, <2>4, <2>5, <2>6, <2>7 DEF TypeOK
<1>4. Retention /\ Accounted /\ GroupExists
  BY <1>1 DEF Init, Retention, Accounted, GroupExists
<1>5. Delivered /\ FinishedFirst
  BY <1>2 DEF Init, Delivered, FinishedFirst, AckedIsFinished, At, Free
<1>6. Exclusive /\ SoleHandler
  BY <1>2 DEF Init, Exclusive, SoleHandler
<1> QED BY <1>3, <1>4, <1>5, <1>6 DEF IInv

\* Publishing, and the trimming it does, keeps the invariant.
LEMMA PublishInv == ASSUME IInv, NEW j \in Jobs, Publish(j) PROVE IInv'
<1> USE DEF IInv, Publish, queueVars, workVars, historyVars, budgetVars
<1>1. /\ log \in Seq(Jobs) /\ log' \in Seq(Jobs)
      /\ Len(log) \in Nat /\ Len(log') = Len(log) + 1
  BY DEF TypeOK
<1>2. PICK t \in trimmed..Len(log') :
        (t = trimmed \/ Len(log') - t >= MaxLen) /\ trimmed' = t
  OBVIOUS
<1>3. Entries \subseteq Entries' /\ Entries' = Entries \cup {Len(log) + 1}
  BY <1>1 DEF Entries
<1>4. TypeOK'
  BY <1>1, <1>2, <1>3 DEF TypeOK
<1>5. Retention'
  BY <1>1, <1>2, MaxLenAssumption DEF Retention, TypeOK
<1>6. Accounted'
  BY <1>1, <1>2, <1>3 DEF Accounted, TypeOK, Entries
<1>7. GroupExists' /\ Delivered'
  BY <1>3 DEF GroupExists, Delivered, Busy
<1>8. FinishedFirst' /\ Exclusive' /\ SoleHandler'
  BY DEF FinishedFirst, AckedIsFinished, Exclusive, SoleHandler, Busy, At, Handling
<1> QED BY <1>4, <1>5, <1>6, <1>7, <1>8

\* So does starting a worker, with or without a group.
LEMMA StartInv == ASSUME IInv, NEW w \in Workers, Start(w) PROVE IInv'
<1> USE DEF IInv, Start, queueVars, workVars, historyVars, budgetVars
<1>1. delivered' = delivered /\ Entries' = Entries
  BY DEF GroupExists, Entries
<1>2. TypeOK' /\ Retention' /\ Accounted' /\ GroupExists'
  BY <1>1 DEF TypeOK, Retention, Accounted, GroupExists
<1>3. Delivered' /\ FinishedFirst' /\ Exclusive' /\ SoleHandler'
  BY <1>1 DEF Delivered, FinishedFirst, AckedIsFinished, Exclusive, SoleHandler,
              Busy, At, Handling
<1> QED BY <1>2, <1>3

(***************************************************************************)
(* The pending list after a claim, with or without its reply.              *)
(***************************************************************************)
LEMMA ClaimedQueue ==
  ASSUME IInv, NEW w \in Workers, NEW k \in Counts(w),
         AutoClaim(ClaimReply(k).gone, ClaimReply(k).claimed), settled' = settled
  PROVE  /\ Entries' = Entries /\ delivered' = delivered /\ log' = log
         /\ trimmed' = trimmed /\ group' = group
         /\ pel' \subseteq pel /\ idle' \subseteq idle /\ idle' \subseteq pel'
         /\ \A e \in ClaimReply(k).claimed : e \notin idle'
         /\ ClaimReply(k).claimed \subseteq idle
         /\ Accounted'
<1>1. /\ ClaimReply(k).gone \subseteq pel \cap 1..trimmed
      /\ ClaimReply(k).claimed \subseteq idle
  BY ClaimReplyWithin
<1>2. Accounted'
  BY <1>1 DEF IInv, AutoClaim, Accounted, Entries, TypeOK
<1> QED BY <1>1, <1>2 DEF AutoClaim, Entries, IInv, TypeOK

(***************************************************************************)
(* What handing a batch to free slots does to the parts of the invariant   *)
(* about handle calls: the batch must be delivered and, unless handle      *)
(* calls may overrun, neither in hand nor acknowledged.                    *)
(***************************************************************************)
LEMMA DispatchKeeps ==
  ASSUME IInv, NEW w \in Workers, NEW S \in SUBSET Entries, Dispatch(w, S),
         Entries' = Entries, delivered \in Nat, delivered' \in Nat,
         delivered <= delivered',
         finished' = finished, settled' = settled,
         \A e \in S : e <= delivered',
         ~MayOverrun => \A e \in S : ~Handling(e) /\ e \notin settled
  PROVE  /\ slot' \in [Workers -> [Slots -> HandleCalls]]
         /\ \A v \in Workers, s \in Slots : Busy(v, s)' =>
              \/ Busy(v, s) /\ slot'[v][s].entry = slot[v][s].entry
              \/ slot'[v][s].entry \in S
         /\ \A v \in Workers, s \in Slots : Busy(v, s)' =>
              slot'[v][s].entry \in Entries' /\ slot'[v][s].entry <= delivered'
         /\ FinishedFirst'
         /\ SoleHandler'
<1> USE DEF IInv
<1>1. /\ slot' \in [Workers -> [Slots -> HandleCalls]]
      /\ \A v \in Workers, s \in Slots : v # w => slot'[v][s] = slot[v][s]
      /\ \A s \in Slots :
           \/ slot'[w][s] = slot[w][s]
           \/ /\ ~Busy(w, s) /\ slot'[w][s].entry \in S
              /\ slot'[w][s].step \in {"attempt", "deadletter"}
      /\ \A s, t \in Slots :
           /\ slot'[w][s] # slot[w][s] /\ slot'[w][t] # slot[w][t]
           /\ slot'[w][s].entry = slot'[w][t].entry
           => s = t
  BY DispatchEffect DEF TypeOK
<1>2. \A v \in Workers, s \in Slots :
        \/ slot'[v][s] = slot[v][s]
        \/ /\ v = w /\ ~Busy(v, s) /\ slot'[v][s].entry \in S
           /\ slot'[v][s].step \in {"attempt", "deadletter"}
  <2> TAKE v \in Workers, s \in Slots
  <2>1. CASE v = w
    BY <2>1, <1>1
  <2>2. CASE v # w
    BY <2>2, <1>1
  <2> QED BY <2>1, <2>2
<1>3. \A v \in Workers, s \in Slots : Busy(v, s)' =>
        slot'[v][s].entry \in Entries' /\ slot'[v][s].entry <= delivered'
  <2> TAKE v \in Workers, s \in Slots
  <2> HAVE Busy(v, s)'
  <2>1. CASE slot'[v][s] = slot[v][s]
    <3>1. Busy(v, s)
      BY <2>1 DEF Busy
    <3>2. slot[v][s].entry \in Entries /\ slot[v][s].entry <= delivered
      BY <3>1 DEF Delivered
    <3> QED BY <2>1, <3>2 DEF Entries
  <2>2. CASE slot'[v][s].entry \in S
    BY <2>2
  <2> QED BY <2>1, <2>2, <1>2
<1>4. FinishedFirst'
  BY <1>2 DEF FinishedFirst, AckedIsFinished, At
<1>5. SoleHandler'
  <2> SUFFICES ASSUME ~MayOverrun,
                      NEW v \in Workers, NEW u \in Workers,
                      NEW s \in Slots, NEW t \in Slots, Busy(v, s)'
               PROVE  /\ slot'[v][s].entry \notin settled'
                      /\ (Busy(u, t)' /\ slot'[v][s].entry = slot'[u][t].entry)
                           => (v = u /\ s = t)
    BY DEF SoleHandler
  <2>1. slot'[v][s].entry \notin settled'
    BY <1>2 DEF SoleHandler, Busy
  <2>2. ASSUME Busy(u, t)', slot'[v][s].entry = slot'[u][t].entry
        PROVE  v = u /\ s = t
    <3>1. CASE slot'[v][s] = slot[v][s] /\ slot'[u][t] = slot[u][t]
      BY <2>2, <3>1 DEF SoleHandler, Busy
    <3>2. CASE slot'[v][s] # slot[v][s] /\ slot'[u][t] = slot[u][t]
      BY <2>2, <3>2, <1>2 DEF Handling, Busy
    <3>3. CASE slot'[v][s] = slot[v][s] /\ slot'[u][t] # slot[u][t]
      BY <2>2, <3>3, <1>2 DEF Handling, Busy
    <3>4. CASE slot'[v][s] # slot[v][s] /\ slot'[u][t] # slot[u][t]
      BY <2>2, <3>4, <1>1
    <3> QED BY <3>1, <3>2, <3>3, <3>4
  <2> QED BY <2>1, <2>2
<1>6. \A v \in Workers, s \in Slots : Busy(v, s)' =>
        \/ Busy(v, s) /\ slot'[v][s].entry = slot[v][s].entry
        \/ slot'[v][s].entry \in S
  BY <1>2 DEF Busy
<1> QED BY <1>1, <1>3, <1>4, <1>5, <1>6

\* So does a claim, whatever it reclaims and dispatches.
LEMMA ClaimInv == ASSUME IInv, NEW w \in Workers, Claim(w) PROVE IInv'
<1> USE DEF IInv, Claim, historyVars, budgetVars
<1>1. PICK k \in Counts(w) :
        /\ AutoClaim(ClaimReply(k).gone, ClaimReply(k).claimed)
        /\ Dispatch(w, ClaimReply(k).claimed)
        /\ loop' = [loop EXCEPT ![w] =
                      IF ClaimReply(k).claimed = {} THEN "read" ELSE "claim"]
  OBVIOUS
<1> DEFINE S == ClaimReply(k).claimed
<1> HIDE DEF S
<1>2. /\ Entries' = Entries /\ delivered' = delivered /\ log' = log
      /\ trimmed' = trimmed /\ group' = group
      /\ pel' \subseteq pel /\ idle' \subseteq idle /\ idle' \subseteq pel'
      /\ \A e \in S : e \notin idle'
      /\ S \subseteq idle /\ Accounted'
  BY <1>1, ClaimedQueue DEF S
<1>3. S \in SUBSET Entries /\ Dispatch(w, S) /\ delivered \in Nat
  BY <1>1, <1>2 DEF TypeOK, S
<1>4. ~MayOverrun => \A e \in S : ~Handling(e) /\ e \notin settled
  BY <1>2 DEF Exclusive, TypeOK
<1>5. \A e \in S : e <= delivered'
  BY <1>2 DEF Delivered, TypeOK
<1>6. /\ slot' \in [Workers -> [Slots -> HandleCalls]]
      /\ \A v \in Workers, s \in Slots : Busy(v, s)' =>
           \/ Busy(v, s) /\ slot'[v][s].entry = slot[v][s].entry
           \/ slot'[v][s].entry \in S
      /\ \A v \in Workers, s \in Slots : Busy(v, s)' =>
           slot'[v][s].entry \in Entries' /\ slot'[v][s].entry <= delivered'
      /\ FinishedFirst' /\ SoleHandler'
  BY <1>2, <1>3, <1>4, <1>5, DispatchKeeps
<1>7. TypeOK' /\ Retention' /\ GroupExists'
  BY <1>1, <1>2, <1>6 DEF TypeOK, Retention, GroupExists
<1>8. Delivered'
  BY <1>2, <1>6 DEF Delivered
<1>9. Exclusive'
  BY <1>2, <1>6 DEF Exclusive, Handling
<1> QED BY <1>2, <1>6, <1>7, <1>8, <1>9

\* So does a claim whose reply is lost.
LEMMA ClaimReplyLostInv ==
  ASSUME IInv, NEW w \in Workers, ClaimReplyLost(w) PROVE IInv'
<1> USE DEF IInv, ClaimReplyLost, Fault, historyVars, workVars
<1>1. PICK k \in Counts(w) : AutoClaim(ClaimReply(k).gone, ClaimReply(k).claimed)
  OBVIOUS
<1>2. /\ Entries' = Entries /\ delivered' = delivered /\ log' = log
      /\ trimmed' = trimmed /\ group' = group
      /\ pel' \subseteq pel /\ idle' \subseteq idle /\ idle' \subseteq pel'
      /\ Accounted'
  BY <1>1, ClaimedQueue
<1>3. TypeOK' /\ Retention' /\ GroupExists'
  BY <1>2, BoundsAssumption DEF TypeOK, Retention, GroupExists
<1>4. Delivered' /\ FinishedFirst' /\ Exclusive' /\ SoleHandler'
  BY <1>2 DEF Delivered, FinishedFirst, AckedIsFinished, Exclusive, SoleHandler,
              Busy, At, Handling
<1> QED BY <1>2, <1>3, <1>4

(***************************************************************************)
(* The pending list after a read, with or without its reply.               *)
(***************************************************************************)
LEMMA ReadQueue ==
  ASSUME IInv, NEW w \in Workers, NEW k \in Counts(w), ReadGroup(k),
         settled' = settled
  PROVE  /\ Entries' = Entries /\ log' = log /\ trimmed' = trimmed
         /\ group' = group /\ idle' = idle
         /\ pel' = pel \cup NewEntries(k) /\ NewEntries(k) \in SUBSET Entries
         /\ delivered \in Nat /\ delivered' \in 0..Len(log) /\ delivered <= delivered'
         /\ \A e \in NewEntries(k) : delivered < e /\ e <= delivered'
         /\ Accounted'
<1>1. k \in Nat /\ k >= 1
  BY CountsPositive
<1>2. /\ trimmed \in 0..Len(log) /\ delivered \in 0..Len(log) /\ Len(log) \in Nat
  BY DEF IInv, TypeOK
<1>3. /\ LastRead(k) \in 0..Len(log)
      /\ delivered <= LastRead(k)
      /\ \A e \in NewEntries(k) : e \in Entries /\ delivered < e /\ trimmed < e
      /\ \A e \in NewEntries(k) : e <= LastRead(k)
      /\ \A e \in Entries : delivered < e /\ e <= LastRead(k) /\ trimmed < e
                              => e \in NewEntries(k)
  BY <1>1, <1>2, LastReadBounds
<1>4. Accounted'
  BY <1>2, <1>3 DEF IInv, ReadGroup, Accounted, Entries
<1> QED BY <1>2, <1>3, <1>4 DEF ReadGroup, Entries

\* So does reading new entries.
LEMMA ReadNewInv == ASSUME IInv, NEW w \in Workers, ReadNew(w) PROVE IInv'
<1> USE DEF IInv, ReadNew, historyVars, budgetVars
<1>1. PICK k \in Counts(w) : ReadGroup(k) /\ Dispatch(w, NewEntries(k))
  OBVIOUS
<1> DEFINE S == NewEntries(k)
<1> HIDE DEF S
<1>2. /\ Entries' = Entries /\ log' = log /\ trimmed' = trimmed
      /\ group' = group /\ idle' = idle
      /\ pel' = pel \cup S /\ S \in SUBSET Entries
      /\ delivered \in Nat /\ delivered' \in 0..Len(log) /\ delivered <= delivered'
      /\ \A e \in S : delivered < e /\ e <= delivered'
      /\ Accounted'
  BY <1>1, ReadQueue DEF S
<1>3. \A e \in S : ~Handling(e) /\ e \notin settled /\ e \notin idle
  BY <1>2 DEF Delivered, Handling, TypeOK, Entries
<1>4. Dispatch(w, S) /\ delivered' \in Nat
  BY <1>1, <1>2 DEF S
<1>5. /\ slot' \in [Workers -> [Slots -> HandleCalls]]
      /\ \A v \in Workers, s \in Slots : Busy(v, s)' =>
           \/ Busy(v, s) /\ slot'[v][s].entry = slot[v][s].entry
           \/ slot'[v][s].entry \in S
      /\ \A v \in Workers, s \in Slots : Busy(v, s)' =>
           slot'[v][s].entry \in Entries' /\ slot'[v][s].entry <= delivered'
      /\ FinishedFirst' /\ SoleHandler'
  BY <1>2, <1>3, <1>4, DispatchKeeps
<1>6. TypeOK' /\ Retention' /\ GroupExists'
  BY <1>2, <1>5 DEF TypeOK, Retention, GroupExists
<1>7. Delivered'
  BY <1>2, <1>5 DEF Delivered, TypeOK, Entries
<1>8. Exclusive'
  BY <1>2, <1>3, <1>5 DEF Exclusive, Handling
<1> QED BY <1>2, <1>5, <1>6, <1>7, <1>8

\* So does a read whose reply is lost.
LEMMA ReadReplyLostInv ==
  ASSUME IInv, NEW w \in Workers, ReadReplyLost(w) PROVE IInv'
<1> USE DEF IInv, ReadReplyLost, Fault, historyVars
<1>1. PICK k \in Counts(w) : ReadGroup(k)
  OBVIOUS
<1> DEFINE S == NewEntries(k)
<1> HIDE DEF S
<1>2. /\ Entries' = Entries /\ log' = log /\ trimmed' = trimmed
      /\ group' = group /\ idle' = idle
      /\ pel' = pel \cup S /\ S \in SUBSET Entries
      /\ delivered \in Nat /\ delivered' \in 0..Len(log) /\ delivered <= delivered'
      /\ \A e \in S : delivered < e /\ e <= delivered'
      /\ Accounted'
  BY <1>1, ReadQueue DEF S
<1>3. TypeOK' /\ Retention' /\ GroupExists'
  BY <1>2, BoundsAssumption DEF TypeOK, Retention, GroupExists
<1>4. Delivered'
  BY <1>2 DEF Delivered, Busy, TypeOK, Entries
<1>5. FinishedFirst' /\ SoleHandler'
  BY DEF FinishedFirst, AckedIsFinished, SoleHandler, Busy, At
<1>6. Exclusive'
  BY <1>2 DEF Exclusive, Delivered, Handling, Busy, TypeOK, Entries
<1> QED BY <1>2, <1>3, <1>4, <1>5, <1>6

\* So does the passing of claimIdle.
LEMMA GoIdleInv == ASSUME IInv, NEW e \in Entries, GoIdle(e) PROVE IInv'
<1> USE DEF IInv, GoIdle, workVars, historyVars, budgetVars
<1>1. Entries' = Entries
  BY DEF Entries
<1>2. TypeOK' /\ Retention' /\ Accounted' /\ GroupExists'
  BY <1>1 DEF TypeOK, Retention, Accounted, GroupExists
<1>3. Delivered' /\ FinishedFirst' /\ SoleHandler'
  BY <1>1 DEF Delivered, FinishedFirst, AckedIsFinished, SoleHandler, Busy, At
<1>4. Exclusive'
  BY DEF Exclusive, Handling, Busy
<1> QED BY <1>2, <1>3, <1>4

-----------------------------------------------------------------------------
(***************************************************************************)
(* A step of one handle call that stays on its entry changes nothing that  *)
(* the invariant says of the queue.  It may only move to the step "ack"    *)
(* when the entry is finished.                                             *)
(***************************************************************************)
LEMMA HandleCallKeeps ==
  ASSUME IInv, NEW w \in Workers, NEW s \in Slots, NEW call \in HandleCalls,
         Busy(w, s), call.step # "free", call.entry = slot[w][s].entry,
         slot' = [slot EXCEPT ![w][s] = call],
         UNCHANGED <<queueVars, loop, settled>>,
         faults' \in 0..MaxFaults, stops' \in 0..MaxStops,
         finished \subseteq finished', finished' \subseteq Entries,
         dead' \subseteq Entries,
         call.step = "ack" => call.entry \in finished'
  PROVE  IInv'
<1> USE DEF IInv, queueVars
<1>1. /\ slot' \in [Workers -> [Slots -> HandleCalls]]
      /\ \A v \in Workers, t \in Slots :
           /\ slot'[v][t] = slot[v][t] \/ (v = w /\ t = s /\ slot'[v][t] = call)
           /\ slot'[v][t].entry = slot[v][t].entry
           /\ Busy(v, t)' <=> Busy(v, t)
  BY DEF TypeOK, Busy
<1>2. Entries' = Entries
  BY DEF Entries
<1>3. TypeOK' /\ Retention' /\ Accounted' /\ GroupExists'
  BY <1>1, <1>2 DEF TypeOK, Retention, Accounted, GroupExists
<1>4. Delivered'
  BY <1>1, <1>2 DEF Delivered
<1>5. FinishedFirst'
  BY <1>1 DEF FinishedFirst, AckedIsFinished, At
<1>6. Exclusive'
  BY <1>1 DEF Exclusive, Handling
<1>7. SoleHandler'
  BY <1>1 DEF SoleHandler
<1> QED BY <1>3, <1>4, <1>5, <1>6, <1>7

\* So does every step of a handle call.
LEMMA HandleStepInv ==
  ASSUME IInv, NEW w \in Workers, NEW s \in Slots, HandleStep(w, s) PROVE IInv'
<1>1. slot[w][s] \in HandleCalls /\ slot \in [Workers -> [Slots -> HandleCalls]]
  BY DEF IInv, TypeOK
<1>2. Busy(w, s) => slot[w][s].entry \in Entries /\ slot[w][s].n \in 1..MaxAttempts
  BY <1>1 DEF IInv, Delivered, Busy, HandleCalls, Free
<1>3. finished \subseteq Entries /\ dead \subseteq Entries
  BY DEF IInv, TypeOK
<1>4. ASSUME NEW result \in Results, AttemptEnds(w, s, result) PROVE IInv'
  <2> DEFINE step == AfterAttempt(slot[w][s].n, result)
             call == [slot[w][s] EXCEPT !.step = step]
  <2>1. Busy(w, s)
    BY <1>4 DEF AttemptEnds, At, Busy
  <2>2. step \in Steps /\ (step = "ack" <=> result \in {"ok", "skip"})
    BY DEF AfterAttempt, Results, Steps
  <2>3. step = "backoff" => slot[w][s].n # MaxAttempts
    BY DEF AfterAttempt, Results
  <2>7. slot[w][s] \in [step : Steps, entry : Nat \ {0}, n : 1..MaxAttempts]
    BY <1>1, <2>1 DEF HandleCalls, Busy, Free
  <2>8. /\ call \in [step : Steps, entry : Nat \ {0}, n : 1..MaxAttempts]
        /\ call.step = step /\ call.entry = slot[w][s].entry /\ call.n = slot[w][s].n
    BY <2>2, <2>7
  <2>9. step = "backoff" => slot[w][s].n < MaxAttempts
    BY <2>3, <2>7, AttemptsAssumption
  <2>4. slot' = [slot EXCEPT ![w][s] = call]
    BY <1>4, <1>1 DEF AttemptEnds, Goto
  <2>5. /\ UNCHANGED <<queueVars, loop, settled>>
        /\ faults' \in 0..MaxFaults /\ stops' \in 0..MaxStops
        /\ finished \subseteq finished' /\ finished' \subseteq Entries
        /\ dead' \subseteq Entries
        /\ step = "ack" => slot[w][s].entry \in finished'
    BY <1>4, <1>2, <1>3, <2>1, <2>2 DEF AttemptEnds, IInv, TypeOK, budgetVars
  <2>6. step # "free"
    BY <2>2 DEF Steps
  <2> HIDE DEF call, step
  <2>10. call \in HandleCalls
    BY <2>8, <2>9 DEF HandleCalls
  <2> QED BY <2>1, <2>4, <2>5, <2>6, <2>8, <2>10, HandleCallKeeps
<1>5. ASSUME BackoffEnds(w, s) PROVE IInv'
  <2> DEFINE call == [slot[w][s] EXCEPT !.step = "attempt", !.n = @ + 1]
  <2>1. Busy(w, s)
    BY <1>5 DEF BackoffEnds, At, Busy
  <2>2. /\ slot[w][s] \in [step : Steps, entry : Nat \ {0}, n : 1..MaxAttempts]
        /\ slot[w][s].n < MaxAttempts
    BY <1>1, <1>5, <2>1 DEF HandleCalls, Busy, Free, BackoffEnds, At
  <2>6. slot[w][s].n + 1 \in 1..MaxAttempts
    BY <2>2, AttemptsAssumption
  <2>3. /\ call \in [step : Steps, entry : Nat \ {0}, n : 1..MaxAttempts]
        /\ call.step = "attempt" /\ call.entry = slot[w][s].entry
    BY <2>2, <2>6 DEF Steps
  <2>4. /\ slot' = [slot EXCEPT ![w][s] = call]
        /\ faults' \in 0..MaxFaults /\ stops' \in 0..MaxStops
    BY <1>5, <1>1 DEF BackoffEnds, IInv, TypeOK, budgetVars
  <2> HIDE DEF call
  <2>5. call \in HandleCalls
    BY <2>3 DEF HandleCalls
  <2> QED BY <1>3, <1>5, <2>1, <2>3, <2>4, <2>5, HandleCallKeeps
          DEF BackoffEnds, historyVars
<1>6. ASSUME NEW from \in {"deadletter", "hook"}, NEW to \in {"hook", "ack"},
             At(w, s, from), Goto(w, s, to),
             UNCHANGED <<queueVars, loop, settled>>,
             faults' \in 0..MaxFaults, stops' \in 0..MaxStops,
             finished \subseteq finished', finished' \subseteq Entries,
             dead' \subseteq Entries,
             to = "ack" => slot[w][s].entry \in finished'
      PROVE  IInv'
  <2> DEFINE call == [slot[w][s] EXCEPT !.step = to]
  <2>1. Busy(w, s)
    BY <1>6 DEF At, Busy
  <2>2. slot[w][s] \in [step : Steps, entry : Nat \ {0}, n : 1..MaxAttempts]
    BY <1>1, <2>1 DEF HandleCalls, Busy, Free
  <2>3. /\ call \in [step : Steps, entry : Nat \ {0}, n : 1..MaxAttempts]
        /\ call.step = to /\ call.entry = slot[w][s].entry
    BY <2>2 DEF Steps
  <2>4. slot' = [slot EXCEPT ![w][s] = call]
    BY <1>6, <1>1 DEF Goto
  <2> HIDE DEF call
  <2>5. call \in HandleCalls
    BY <2>3 DEF HandleCalls
  <2> QED BY <1>6, <2>1, <2>3, <2>4, <2>5, HandleCallKeeps
<1>7. ASSUME DeadLetter(w, s) PROVE IInv'
  <2>1. Busy(w, s) /\ slot[w][s].entry \in Entries
    BY <1>2, <1>7 DEF DeadLetter, At, Busy
  <2>2. dead' \subseteq Entries /\ faults' \in 0..MaxFaults /\ stops' \in 0..MaxStops
    BY <1>3, <1>7, <2>1, BoundsAssumption DEF DeadLetter, Fault, IInv, TypeOK, budgetVars
  <2> QED BY <1>3, <1>6, <1>7, <2>2 DEF DeadLetter
<1>8. ASSUME HookEnds(w, s) PROVE IInv'
  <2>1. Busy(w, s) /\ slot[w][s].entry \in Entries
    BY <1>2, <1>8 DEF HookEnds, At, Busy
  <2>2. faults' \in 0..MaxFaults /\ stops' \in 0..MaxStops
    BY <1>8 DEF HookEnds, IInv, TypeOK, budgetVars
  <2>3. /\ finished \subseteq finished' /\ finished' \subseteq Entries
        /\ slot[w][s].entry \in finished' /\ dead' \subseteq Entries
    BY <1>3, <1>8, <2>1 DEF HookEnds
  <2> QED BY <1>6, <1>8, <2>2, <2>3 DEF HookEnds
<1>9. ASSUME Ack(w, s) \/ AckFails(w, s) PROVE IInv'
  <2> DEFINE x == slot[w][s].entry
  <2>1. Busy(w, s) /\ x \in Entries /\ x <= delivered /\ x \in finished
    BY <1>2, <1>9 DEF Ack, AckFails, At, Busy, IInv, Delivered, FinishedFirst
  <2>2. /\ slot' \in [Workers -> [Slots -> HandleCalls]]
        /\ \A v \in Workers, t \in Slots :
             slot'[v][t] = slot[v][t] \/ (v = w /\ t = s /\ slot'[v][t] = Free)
        /\ slot'[w][s] = Free
    BY <1>1, <1>9, FreeNotBusy DEF Ack, AckFails
  <2>3. \A v \in Workers, t \in Slots : Busy(v, t)' =>
          /\ Busy(v, t) /\ slot'[v][t] = slot[v][t] /\ (v # w \/ t # s)
    BY <2>2, FreeNotBusy DEF Busy
  <2>4. /\ Entries' = Entries /\ log' = log /\ trimmed' = trimmed
        /\ group' = group /\ delivered' = delivered /\ loop' = loop
        /\ finished' = finished /\ dead' = dead
    BY <1>9 DEF Ack, AckFails, Entries, queueVars, historyVars
  <2>5. \/ pel' = pel /\ idle' = idle /\ settled' = settled
        \/ pel' = pel \ {x} /\ idle' = idle \ {x} /\ settled' = settled \cup {x}
    BY <1>9 DEF Ack, AckFails, queueVars, historyVars
  <2>6. faults' \in 0..MaxFaults /\ stops' \in 0..MaxStops
    BY <1>9, BoundsAssumption DEF Ack, AckFails, Fault, IInv, TypeOK, budgetVars
  <2> HIDE DEF x
  <2>7. TypeOK' /\ Retention' /\ GroupExists'
    BY <2>1, <2>2, <2>4, <2>5, <2>6 DEF IInv, TypeOK, Retention, GroupExists
  <2>8. Accounted'
    BY <2>4, <2>5 DEF IInv, Accounted
  <2>9. Delivered'
    BY <2>1, <2>3, <2>4, <2>5 DEF IInv, Delivered
  <2>10. FinishedFirst'
    BY <2>1, <2>2, <2>4, <2>5 DEF IInv, FinishedFirst, AckedIsFinished, At, Free
  <2>11. Exclusive'
    BY <2>3, <2>5 DEF IInv, Exclusive, Handling
  <2>12. SoleHandler'
    BY <2>1, <2>3, <2>5 DEF IInv, SoleHandler, x
  <2> QED BY <2>7, <2>8, <2>9, <2>10, <2>11, <2>12 DEF IInv
<1> QED BY <1>4, <1>5, <1>7, <1>8, <1>9 DEF HandleStep

\* So do shutdown and crash.
LEMMA LoopStepInv ==
  ASSUME IInv, NEW w \in Workers, Stop(w) \/ Drained(w) \/ Crash(w) PROVE IInv'
<1>1. slot \in [Workers -> [Slots -> HandleCalls]]
  BY DEF IInv, TypeOK
<1>2. /\ slot' \in [Workers -> [Slots -> HandleCalls]]
      /\ \A v \in Workers, t \in Slots :
           slot'[v][t] = slot[v][t] \/ slot'[v][t] = Free
  BY <1>1, FreeNotBusy DEF Stop, Drained, Crash
<1>3. \A v \in Workers, t \in Slots : Busy(v, t)' =>
        Busy(v, t) /\ slot'[v][t] = slot[v][t]
  BY <1>2, FreeNotBusy DEF Busy
<1>4. UNCHANGED <<queueVars, historyVars>> /\ Entries' = Entries
  BY DEF Stop, Drained, Crash, Entries, queueVars
<1>5. faults' \in 0..MaxFaults /\ stops' \in 0..MaxStops
  BY BoundsAssumption DEF Stop, Drained, Crash, Fault, IInv, TypeOK, budgetVars
<1>6. /\ loop' \in [Workers -> {"down", "claim", "read", "draining"}]
      /\ loop[w] # "down"
  BY DEF Stop, Drained, Crash, IInv, TypeOK
<1>7. TypeOK' /\ Retention' /\ Accounted' /\ GroupExists'
  BY <1>2, <1>4, <1>5, <1>6
     DEF IInv, TypeOK, Retention, Accounted, GroupExists, queueVars, historyVars
<1>8. Delivered' /\ FinishedFirst'
  BY <1>2, <1>3, <1>4
     DEF IInv, Delivered, FinishedFirst, AckedIsFinished, At, Free, queueVars, historyVars
<1>9. Exclusive' /\ SoleHandler'
  BY <1>3, <1>4 DEF IInv, Exclusive, SoleHandler, Handling, queueVars, historyVars
<1> QED BY <1>7, <1>8, <1>9 DEF IInv

\* The invariant depends on the queue's variables alone.
LEMMA StutterInv == IInv /\ UNCHANGED vars => IInv'
  BY DEF IInv, vars, queueVars, workVars, historyVars, budgetVars, TypeOK, Retention,
         Accounted, GroupExists, Delivered, FinishedFirst, AckedIsFinished, Exclusive,
         SoleHandler, Busy, At, Handling, Entries

\* Every step of the queue keeps the invariant.
LEMMA NextInv == IInv /\ [Next]_vars => IInv'
<1> SUFFICES ASSUME IInv, Next PROVE IInv'
  BY StutterInv
<1>1. ASSUME NEW j \in Jobs, Publish(j) PROVE IInv'
  BY <1>1, PublishInv
<1>2. ASSUME NEW w \in Workers, WorkerStep(w) PROVE IInv'
  BY <1>2, StartInv, LoopStepInv, ClaimInv, ReadNewInv, ClaimReplyLostInv,
     ReadReplyLostInv, HandleStepInv DEF WorkerStep, Fetch
<1>3. ASSUME NEW e \in Entries, GoIdle(e) PROVE IInv'
  BY <1>3, GoIdleInv
<1> QED BY <1>1, <1>2, <1>3 DEF Next

-----------------------------------------------------------------------------
\* The strengthened invariant holds in every reachable state.
THEOREM Invariance == Spec => []IInv
  BY InitInv, NextInv, PTL DEF Spec

\* Every variable of the queue keeps its type, for every instance.
THEOREM TypeCorrect == Spec => []TypeOK
<1>1. IInv => TypeOK
  BY DEF IInv
<1> QED BY Invariance, <1>1, PTL

(***************************************************************************)
(* No published job disappears, for every number of workers, crashes and   *)
(* lost replies: it is unread, pending, acknowledged, or expired.          *)
(***************************************************************************)
THEOREM JobsAreNotLost == Spec => []NoSilentLoss
<1>1. IInv => NoSilentLoss
  <2> SUFFICES ASSUME IInv, NEW e \in Entries,
                      ~(e > delivered), e \notin pel, e \notin settled
               PROVE  Len(log) - e >= MaxLen
    BY DEF NoSilentLoss
  <2>1. e <= trimmed /\ e >= 1 /\ e \in Nat /\ trimmed \in Nat /\ Len(log) \in Nat
    BY DEF IInv, Accounted, TypeOK, Entries
  <2>2. trimmed # 0 /\ Len(log) - trimmed >= MaxLen
    BY <2>1 DEF IInv, Retention
  <2> QED BY <2>1, <2>2, MaxLenAssumption
<1> QED BY Invariance, <1>1, PTL

\* An acknowledged job was brought to an outcome, for every instance.
THEOREM AcksFollowOutcomes == Spec => []AckedIsFinished
<1>1. IInv => AckedIsFinished
  BY DEF IInv, FinishedFirst
<1> QED BY Invariance, <1>1, PTL

(***************************************************************************)
(* While handle calls stay below claimIdle, a job is in one pair of hands  *)
(* and never again after its acknowledgement, for every instance.          *)
(***************************************************************************)
THEOREM HandlersAreAlone == Spec => []SoleHandler
<1>1. IInv => SoleHandler
  BY DEF IInv
<1> QED BY Invariance, <1>1, PTL

-----------------------------------------------------------------------------
(***************************************************************************)
(* Nothing is abandoned: what a reply delivers is in a handle call at once,*)
(* and only a fault takes an entry out of the hands of its handle call     *)
(* without its acknowledgement.                                            *)
(***************************************************************************)

\* Dispatch hands every entry of the batch to a slot and disturbs no handle call.
LEMMA DispatchHandles ==
  ASSUME slot \in [Workers -> [Slots -> HandleCalls]],
         NEW w \in Workers, NEW S \in SUBSET Entries, Dispatch(w, S)
  PROVE  /\ \A e \in S : Handling(e)'
         /\ \A e : Handling(e) => Handling(e)'
<1>1. PICK f \in [S -> FreeSlots(w)] :
        /\ \A a, b \in S : f[a] = f[b] => a = b
        /\ slot' = [slot EXCEPT ![w] =
                      [s \in Slots |-> IF \E e \in S : f[e] = s
                                       THEN Opened(CHOOSE e \in S : f[e] = s)
                                       ELSE slot[w][s]]]
  BY DEF Dispatch
<1>2. \A e \in S : f[e] \in Slots /\ ~Busy(w, f[e])
  BY <1>1 DEF FreeSlots
<1>3. ASSUME NEW e \in S PROVE Handling(e)'
  <2>1. (CHOOSE x \in S : f[x] = f[e]) = e
    BY <1>1
  <2>2. slot'[w][f[e]] = Opened(e)
    BY <1>1, <1>2, <2>1
  <2>3. Opened(e).entry = e /\ Opened(e).step # "free"
    BY DEF Opened
  <2> QED BY <1>2, <2>2, <2>3 DEF Handling, Busy
<1>4. \A v \in Workers, s \in Slots : Busy(v, s) => slot'[v][s] = slot[v][s]
  <2> SUFFICES ASSUME NEW v \in Workers, NEW s \in Slots, Busy(v, s)
               PROVE  slot'[v][s] = slot[v][s]
    OBVIOUS
  <2>1. CASE v # w
    BY <1>1, <2>1
  <2>2. CASE v = w
    <3>1. \A e \in S : f[e] # s
      BY <1>2, <2>2
    <3> QED BY <1>1, <2>2, <3>1
  <2> QED BY <2>1, <2>2
<1>5. \A e : Handling(e) => Handling(e)'
  BY <1>4 DEF Handling, Busy
<1> QED BY <1>3, <1>5

\* A handle call keeps its entry as long as it lasts.
LEMMA HandleStepEntry ==
  ASSUME IInv, NEW w \in Workers, NEW s \in Slots, HandleStep(w, s), ~Ack(w, s),
         NEW v \in Workers, NEW t \in Slots
  PROVE  /\ Busy(v, t)' => Busy(v, t) /\ slot'[v][t].entry = slot[v][t].entry
         /\ Busy(v, t) /\ ~AckFails(w, s) => Busy(v, t)'
<1>1. slot \in [Workers -> [Slots -> HandleCalls]]
  BY DEF IInv, TypeOK
<1>2. \/ \E step \in Steps : Goto(w, s, step)
      \/ BackoffEnds(w, s)
      \/ AckFails(w, s)
  <2>1. \A n, result : result \in Results => AfterAttempt(n, result) \in Steps
    BY DEF AfterAttempt, Results, Steps
  <2> QED BY <2>1 DEF HandleStep, AttemptEnds, DeadLetter, HookEnds, Steps
<1>3. \A step \in Steps : step # "free"
  BY DEF Steps
<1>4. Busy(w, s)
  BY DEF HandleStep, AttemptEnds, BackoffEnds, DeadLetter, HookEnds, AckFails, At, Busy
<1>5. CASE v # w \/ t # s
  BY <1>1, <1>2, <1>5 DEF Busy, Goto, BackoffEnds, AckFails
<1>6. CASE v = w /\ t = s
  <2>1. slot[w][s] \in [step : Steps, entry : Nat \ {0}, n : 1..MaxAttempts]
    BY <1>1, <1>4 DEF Busy, HandleCalls, Free
  <2>2. ASSUME NEW step \in Steps, Goto(w, s, step)
        PROVE  slot'[w][s].step = step /\ slot'[w][s].entry = slot[w][s].entry
    BY <1>1, <2>1, <2>2 DEF Goto
  <2>3. ASSUME BackoffEnds(w, s)
        PROVE  slot'[w][s].step = "attempt" /\ slot'[w][s].entry = slot[w][s].entry
    BY <1>1, <2>1, <2>3 DEF BackoffEnds
  <2>4. ASSUME AckFails(w, s) PROVE slot'[w][s].step = "free"
    BY <1>1, <2>4, FreeNotBusy DEF AckFails
  <2> QED BY <1>2, <1>3, <1>4, <1>6, <2>2, <2>3, <2>4 DEF Busy, Steps
<1> QED BY <1>5, <1>6

\* A step of a handle call, no fault, takes its entry out of hand only with the
\* acknowledgement.
LEMMA HandleStepHolds ==
  ASSUME IInv, NEW w \in Workers, NEW s \in Slots, HandleStep(w, s),
         faults' = 0, NothingAbandoned
  PROVE  NothingAbandoned'
<1>1. slot \in [Workers -> [Slots -> HandleCalls]] /\ faults \in Nat
  BY BoundsAssumption DEF IInv, TypeOK
<1>2. ASSUME ~Ack(w, s) PROVE \A e \in pel' : e \in pel /\ (Handling(e) => Handling(e)')
  <2>1. pel' = pel /\ ~AckFails(w, s)
    BY <1>1, <1>2 DEF HandleStep, AttemptEnds, BackoffEnds, DeadLetter, HookEnds, AckFails,
                      Fault, queueVars
  <2> QED BY <1>2, <2>1, HandleStepEntry DEF Handling
<1>3. ASSUME Ack(w, s) PROVE \A e \in pel' : e \in pel /\ (Handling(e) => Handling(e)')
  <2>1. \A e \in pel' : e \in pel /\ e # slot[w][s].entry
    BY <1>3 DEF Ack
  <2>2. \A v \in Workers, t \in Slots :
          slot[v][t].entry # slot[w][s].entry => slot'[v][t] = slot[v][t]
    BY <1>1, <1>3 DEF Ack
  <2> QED BY <2>1, <2>2 DEF Handling, Busy
<1>4. faults = 0
  BY <1>1 DEF HandleStep, AttemptEnds, BackoffEnds, DeadLetter, HookEnds, Ack, AckFails, Fault,
              budgetVars
<1> QED BY <1>2, <1>3, <1>4 DEF NothingAbandoned

\* Every step but a fault keeps what is pending in hand.
LEMMA NextHolds == IInv /\ NothingAbandoned /\ [Next]_vars => NothingAbandoned'
<1> SUFFICES ASSUME IInv, NothingAbandoned, [Next]_vars, faults' = 0
             PROVE  \A e \in pel' : Handling(e)'
  BY DEF NothingAbandoned
<1>1. slot \in [Workers -> [Slots -> HandleCalls]] /\ faults \in Nat /\ pel \subseteq Entries
  BY BoundsAssumption DEF IInv, TypeOK
<1>2. ASSUME UNCHANGED <<pel, slot, faults>> PROVE \A e \in pel' : Handling(e)'
  BY <1>2 DEF NothingAbandoned, Handling, Busy
<1>3. ASSUME NEW w \in Workers, Claim(w) PROVE \A e \in pel' : Handling(e)'
  <2>1. PICK k \in Counts(w) : /\ AutoClaim(ClaimReply(k).gone, ClaimReply(k).claimed)
                               /\ Dispatch(w, ClaimReply(k).claimed)
    BY <1>3 DEF Claim
  <2>2. ClaimReply(k).claimed \in SUBSET Entries
    BY <1>1, ClaimReplyWithin DEF IInv, TypeOK
  <2>3. pel' \subseteq pel /\ faults = 0
    BY <1>3, <2>1 DEF AutoClaim, Claim, budgetVars
  <2> HIDE DEF ClaimReply
  <2> QED BY <1>1, <2>1, <2>2, <2>3, DispatchHandles DEF NothingAbandoned
<1>4. ASSUME NEW w \in Workers, ReadNew(w) PROVE \A e \in pel' : Handling(e)'
  <2>1. PICK k \in Counts(w) : ReadGroup(k) /\ Dispatch(w, NewEntries(k))
    BY <1>4 DEF ReadNew
  <2>2. pel' = pel \cup NewEntries(k) /\ NewEntries(k) \in SUBSET Entries
    BY <1>4, <2>1, ReadQueue DEF ReadNew, historyVars
  <2>3. faults = 0
    BY <1>4 DEF ReadNew, budgetVars
  <2> QED BY <1>1, <2>1, <2>2, <2>3, DispatchHandles DEF NothingAbandoned
<1>5. ASSUME NEW w \in Workers,
             ClaimReplyLost(w) \/ ReadReplyLost(w) \/ Crash(w)
      PROVE  FALSE
  BY <1>1, <1>5 DEF ClaimReplyLost, ReadReplyLost, Crash, Fault
<1>6. ASSUME NEW w \in Workers, Start(w) \/ Stop(w) \/ Drained(w)
      PROVE  UNCHANGED <<pel, slot, faults>>
  BY <1>6 DEF Start, Stop, Drained, queueVars, budgetVars
<1>7. ASSUME NEW w \in Workers, NEW s \in Slots, HandleStep(w, s)
      PROVE  \A e \in pel' : Handling(e)'
  BY <1>7, HandleStepHolds DEF NothingAbandoned
<1>8. ASSUME \/ \E j \in Jobs : Publish(j)
             \/ \E e \in Entries : GoIdle(e)
             \/ UNCHANGED vars
      PROVE  UNCHANGED <<pel, slot, faults>>
  BY <1>8 DEF Publish, GoIdle, vars, queueVars, workVars, budgetVars
<1> QED BY <1>2, <1>3, <1>4, <1>5, <1>6, <1>7, <1>8 DEF Next, WorkerStep, Fetch

\* As long as nothing crashes and no command fails, a shutdown or anything else
\* leaves no pending entry without a live handle call, for every instance.
THEOREM WorkIsNotAbandoned == Spec => []NothingAbandoned
<1>1. Init => NothingAbandoned
  BY DEF Init, NothingAbandoned
<1> QED BY <1>1, NextHolds, Invariance, PTL DEF Spec

-----------------------------------------------------------------------------
(***************************************************************************)
(* Refinement of JobDelivery.                                              *)
(***************************************************************************)
LEMMA RefinementInit == Init => Delivery!Init
  BY DEF Init, Delivery!Init, Owed, Entries

\* A publish is an append that may expire old jobs.
LEMMA RefinePublish ==
  ASSUME IInv, IInv', NEW j \in Jobs, Publish(j) PROVE Delivery!Append1(j)
<1> DEFINE lost == {e \in Owed : e <= trimmed' /\ e \notin pel}
<1>1. /\ log \in Seq(Jobs) /\ Len(log) \in Nat /\ Len(log') = Len(log) + 1
      /\ delivered \in 0..Len(log) /\ trimmed \in 0..Len(log) /\ trimmed' \in Nat
      /\ pel \subseteq Entries
  BY DEF IInv, TypeOK, Publish
<1>2. Entries' = Entries \cup {Len(log')} /\ Len(log') \notin Entries
  BY <1>1 DEF Entries
<1>3. PICK t \in trimmed..Len(log') : trimmed' = t /\ (t = trimmed \/ Len(log') - t >= MaxLen)
  BY DEF Publish
<1>4. trimmed <= trimmed' /\ trimmed' < Len(log')
  BY <1>1, <1>3, MaxLenAssumption
<1>5. lost \subseteq Delivery!Expired(log')
  <2> SUFFICES ASSUME NEW e \in lost PROVE e \in 1..Len(log') /\ Len(log') - e >= MaxLen
    BY DEF Delivery!Expired
  <2>1. e \in Entries /\ e <= trimmed' /\ e > trimmed
    BY <1>1 DEF Owed
  <2> QED BY <1>1, <1>3, <2>1, MaxLenAssumption DEF Entries
<1>6. Owed' = (Owed \cup {Len(log')}) \ lost
  <2>1. pel' = pel /\ delivered' = delivered
    BY DEF Publish
  <2>2. ASSUME NEW e \in Entries
        PROVE  e \in Owed' <=> e \in (Owed \cup {Len(log')}) \ lost
    BY <1>1, <1>2, <1>4, <2>1, <2>2 DEF Owed, Entries
  <2>3. Len(log') \in Owed'
    BY <1>1, <1>2, <1>4, <2>1 DEF Owed
  <2>4. Len(log') \notin lost
    BY <1>4, <1>1
  <2>5. Owed' \subseteq Entries' /\ Owed \subseteq Entries
    BY DEF Owed
  <2> HIDE DEF lost
  <2> QED BY <1>2, <2>2, <2>3, <2>4, <2>5
<1> HIDE DEF lost
<1> QED BY <1>5, <1>6 DEF Delivery!Append1, Publish, historyVars

\* A claim at most expires jobs.
LEMMA RefineClaim ==
  ASSUME IInv, NEW w \in Workers, NEW k \in Counts(w),
         AutoClaim(ClaimReply(k).gone, ClaimReply(k).claimed),
         UNCHANGED historyVars
  PROVE  Delivery!Expire
<1> DEFINE gone == ClaimReply(k).gone
<1>1. gone \subseteq pel \cap 1..trimmed
  BY ClaimReplyWithin
<1>2. gone \subseteq Delivery!Expired(log)
  BY <1>1, MaxLenAssumption DEF IInv, TypeOK, Retention, Entries, Delivery!Expired
<1>3. Owed' = Owed \ gone
  BY <1>1 DEF IInv, TypeOK, AutoClaim, Owed, Entries, Delivered
<1> HIDE DEF gone
<1> QED BY <1>2, <1>3 DEF Delivery!Expire, AutoClaim, historyVars

\* A read changes no obligation, or expires the jobs it skips.
LEMMA RefineRead ==
  ASSUME IInv, NEW w \in Workers, NEW k \in Counts(w), ReadGroup(k),
         UNCHANGED historyVars
  PROVE  UNCHANGED Delivery!vars
<1>1. k \in Nat /\ k >= 1
  BY CountsPositive
<1>2. trimmed \in 0..Len(log) /\ delivered \in 0..Len(log) /\ Len(log) \in Nat
  BY DEF IInv, TypeOK
<1>3. /\ delivered <= LastRead(k)
      /\ LastRead(k) \in 0..Len(log)
      /\ \A e \in NewEntries(k) : e \in Entries /\ delivered < e /\ trimmed < e
      /\ \A e \in Entries : delivered < e /\ e <= LastRead(k) /\ trimmed < e
                              => e \in NewEntries(k)
  BY <1>1, <1>2, LastReadBounds
<1>4. /\ Entries' = Entries /\ log' = log /\ trimmed' = trimmed
      /\ delivered' = LastRead(k) /\ pel' = pel \cup NewEntries(k)
  BY DEF ReadGroup, Entries
<1>5. Owed' = Owed
  BY <1>2, <1>3, <1>4 DEF Owed, Entries
<1> QED BY <1>4, <1>5 DEF Delivery!vars, historyVars

\* A step of a handle call finishes a job, settles it or does neither.
LEMMA RefineHandle ==
  ASSUME IInv, NEW w \in Workers, NEW s \in Slots, HandleStep(w, s)
  PROVE  [Delivery!Next]_Delivery!vars
<1> DEFINE x == slot[w][s].entry
<1>1. Busy(w, s) => x \in Entries /\ x <= delivered
  BY DEF IInv, Delivered
<1>2. ASSUME \/ \E result \in Results : AttemptEnds(w, s, result)
             \/ HookEnds(w, s)
      PROVE  Delivery!Finish(x) \/ UNCHANGED Delivery!vars
  <2>1. finished' = finished \cup {x} \/ finished' = finished
    BY <1>2 DEF AttemptEnds, HookEnds
  <2>2. UNCHANGED <<log, Owed, settled>>
    BY <1>2 DEF AttemptEnds, HookEnds, queueVars, Owed, Entries
  <2> QED BY <2>1, <2>2 DEF Delivery!Finish, Delivery!vars
<1>3. ASSUME BackoffEnds(w, s) \/ DeadLetter(w, s) \/ AckFails(w, s)
      PROVE  UNCHANGED Delivery!vars
  BY <1>3 DEF BackoffEnds, DeadLetter, AckFails, queueVars, historyVars, Owed, Entries,
              Delivery!vars
<1>4. ASSUME Ack(w, s) PROVE Delivery!Settle(x)
  <2>1. x \in finished /\ x <= delivered
    BY <1>1, <1>4 DEF Ack, At, Busy, IInv, FinishedFirst
  <2>2. Owed' = Owed \ {x}
    BY <2>1, <1>4 DEF Ack, Owed, Entries, IInv, TypeOK
  <2> QED BY <1>4, <2>1, <2>2 DEF Ack, Delivery!Settle
<1>5. Busy(w, s)
  BY DEF HandleStep, AttemptEnds, BackoffEnds, DeadLetter, HookEnds, Ack, AckFails, At, Busy
<1> HIDE DEF x
<1> QED BY <1>1, <1>2, <1>3, <1>4, <1>5 DEF HandleStep, Delivery!Next, Entries

\* Every step of the queue is a step or a stutter of JobDelivery.
LEMMA RefinementStep == IInv /\ IInv' /\ [Next]_vars => [Delivery!Next]_Delivery!vars
<1> SUFFICES ASSUME IInv, IInv', [Next]_vars PROVE [Delivery!Next]_Delivery!vars
  OBVIOUS
<1>1. ASSUME NEW j \in Jobs, Publish(j) PROVE [Delivery!Next]_Delivery!vars
  BY <1>1, RefinePublish DEF Delivery!Next
<1>2. ASSUME NEW w \in Workers, WorkerStep(w) PROVE [Delivery!Next]_Delivery!vars
  <2>1. ASSUME Start(w) \/ Stop(w) \/ Drained(w) \/ Crash(w)
        PROVE  UNCHANGED Delivery!vars
    BY <2>1 DEF Start, Stop, Drained, Crash, IInv, GroupExists, queueVars, historyVars,
                Owed, Entries, Delivery!vars
  <2>2. ASSUME Claim(w) \/ ClaimReplyLost(w) PROVE Delivery!Expire
    BY <2>2, RefineClaim DEF Claim, ClaimReplyLost
  <2>3. ASSUME ReadNew(w) \/ ReadReplyLost(w) PROVE UNCHANGED Delivery!vars
    BY <2>3, RefineRead DEF ReadNew, ReadReplyLost
  <2>4. ASSUME NEW s \in Slots, HandleStep(w, s) PROVE [Delivery!Next]_Delivery!vars
    BY <2>4, RefineHandle
  <2> QED BY <1>2, <2>1, <2>2, <2>3, <2>4 DEF WorkerStep, Fetch, Delivery!Next
<1>3. ASSUME NEW e \in Entries, GoIdle(e) PROVE UNCHANGED Delivery!vars
  BY <1>3 DEF GoIdle, historyVars, Owed, Entries, Delivery!vars
<1>4. ASSUME UNCHANGED vars PROVE UNCHANGED Delivery!vars
  BY <1>4 DEF vars, queueVars, historyVars, Owed, Entries, Delivery!vars
<1> QED BY <1>1, <1>2, <1>3, <1>4 DEF Next

(***************************************************************************)
(* The queue implements at-least-once delivery with bounded retention, for *)
(* every instance.                                                         *)
(***************************************************************************)
THEOREM Refinement == Spec => ImplementsDelivery
  BY RefinementInit, RefinementStep, Invariance, PTL
  DEF Spec, ImplementsDelivery, Delivery!Spec

-----------------------------------------------------------------------------
(***************************************************************************)
(* What a handle call holds, and what is owed, from one step to the next:  *)
(* for the modules that compose the queue with a handler.                  *)
(***************************************************************************)

\* While handle calls stay below claimIdle, the entry of each is pending, or
\* trimming has taken it.
Held ==
  ~MayOverrun => \A w \in Workers, s \in Slots :
                   Busy(w, s) => slot[w][s].entry \in pel \/ slot[w][s].entry <= trimmed

\* Nothing is held at first.
LEMMA HeldInit == Init => Held
  BY DEF Init, Held, Busy, Free

\* An entry in the hands of a call stays pending until its ack, or is trimmed.
LEMMA HeldNext == IInv /\ Held /\ [Next]_vars => Held'
<1> SUFFICES ASSUME IInv, Held, [Next]_vars, ~MayOverrun,
                    NEW v \in Workers, NEW t \in Slots, Busy(v, t)'
             PROVE  slot'[v][t].entry \in pel' \/ slot'[v][t].entry <= trimmed'
  BY DEF Held
<1>1. /\ slot \in [Workers -> [Slots -> HandleCalls]] /\ pel \subseteq Entries
      /\ trimmed \in Nat /\ Len(log) \in Nat /\ idle \subseteq pel
  BY DEF IInv, TypeOK
<1>2. Busy(v, t) => slot[v][t].entry \in pel \/ slot[v][t].entry <= trimmed
  BY DEF Held
<1>3. Busy(v, t) => slot[v][t].entry \in Nat
  BY DEF IInv, Delivered, Entries
<1>4. ASSUME NEW w \in Workers, Claim(w)
      PROVE  slot'[v][t].entry \in pel' \/ slot'[v][t].entry <= trimmed'
  <2>1. PICK k \in Counts(w) : /\ AutoClaim(ClaimReply(k).gone, ClaimReply(k).claimed)
                               /\ Dispatch(w, ClaimReply(k).claimed)
    BY <1>4 DEF Claim
  <2>2. /\ ClaimReply(k).gone \subseteq 1..trimmed
        /\ ClaimReply(k).claimed \subseteq pel \ 1..trimmed
    BY <1>1 DEF ClaimReply, Oldest
  <2>3. \/ slot'[v][t] = slot[v][t]
        \/ slot'[v][t].entry \in ClaimReply(k).claimed
    BY <1>1, <2>1, <2>2, DispatchEffect
  <2>4. pel' = pel \ ClaimReply(k).gone /\ trimmed' = trimmed
    BY <2>1 DEF AutoClaim
  <2> HIDE DEF ClaimReply
  <2> QED BY <1>1, <1>2, <1>3, <2>2, <2>3, <2>4 DEF Busy, Entries
<1>5. ASSUME NEW w \in Workers, ReadNew(w)
      PROVE  slot'[v][t].entry \in pel' \/ slot'[v][t].entry <= trimmed'
  <2>1. PICK k \in Counts(w) : ReadGroup(k) /\ Dispatch(w, NewEntries(k))
    BY <1>5 DEF ReadNew
  <2>2. /\ pel' = pel \cup NewEntries(k) /\ NewEntries(k) \in SUBSET Entries
        /\ trimmed' = trimmed
    BY <1>5, <2>1, ReadQueue DEF ReadNew, historyVars
  <2>3. slot'[v][t] = slot[v][t] \/ slot'[v][t].entry \in NewEntries(k)
    BY <1>1, <2>1, <2>2, DispatchEffect
  <2> QED BY <1>2, <2>2, <2>3 DEF Busy
<1>6. ASSUME NEW w \in Workers, ClaimReplyLost(w) \/ ReadReplyLost(w)
      PROVE  slot'[v][t].entry \in pel' \/ slot'[v][t].entry <= trimmed'
  <2>1. slot' = slot /\ trimmed' = trimmed
    BY <1>6 DEF ClaimReplyLost, ReadReplyLost, AutoClaim, ReadGroup, workVars
  <2>2. CASE ClaimReplyLost(w)
    <3>1. PICK k \in Counts(w) : AutoClaim(ClaimReply(k).gone, ClaimReply(k).claimed)
      BY <2>2 DEF ClaimReplyLost
    <3>2. ClaimReply(k).gone \subseteq 1..trimmed /\ pel' = pel \ ClaimReply(k).gone
      BY <1>1, <3>1 DEF AutoClaim, ClaimReply, Oldest
    <3> QED BY <1>1, <1>2, <2>1, <3>2 DEF Busy
  <2>3. CASE ReadReplyLost(w)
    BY <1>2, <2>1, <2>3 DEF ReadReplyLost, ReadGroup, Busy
  <2> QED BY <1>6, <2>2, <2>3
<1>7. ASSUME NEW w \in Workers, Start(w) \/ Stop(w) \/ Drained(w) \/ Crash(w)
      PROVE  slot'[v][t].entry \in pel' \/ slot'[v][t].entry <= trimmed'
  <2>1. pel' = pel /\ trimmed' = trimmed /\ (slot'[v][t] = slot[v][t] \/ slot'[v][t] = Free)
    BY <1>1, <1>7 DEF Start, Stop, Drained, Crash, queueVars
  <2> QED BY <1>2, <2>1, FreeNotBusy DEF Busy
<1>8. ASSUME NEW w \in Workers, NEW s \in Slots, HandleStep(w, s)
      PROVE  slot'[v][t].entry \in pel' \/ slot'[v][t].entry <= trimmed'
  <2>1. CASE Ack(w, s)
    <3>1. (v # w \/ t # s) /\ slot'[v][t] = slot[v][t]
      BY <1>1, <2>1, FreeNotBusy DEF Ack, Busy
    <3>2. slot[v][t].entry # slot[w][s].entry
      BY <2>1, <3>1 DEF IInv, SoleHandler, Busy, Ack, At
    <3> QED BY <1>2, <2>1, <3>1, <3>2 DEF Ack, Busy
  <2>2. CASE ~Ack(w, s)
    <3>1. pel' = pel /\ trimmed' = trimmed
      BY <1>8, <2>2 DEF HandleStep, AttemptEnds, BackoffEnds, DeadLetter, HookEnds, AckFails,
                        queueVars
    <3>2. Busy(v, t) /\ slot'[v][t].entry = slot[v][t].entry
      BY <1>8, <2>2, HandleStepEntry
    <3> QED BY <1>2, <3>1, <3>2
  <2> QED BY <2>1, <2>2
<1>9. ASSUME NEW j \in Jobs, Publish(j)
      PROVE  slot'[v][t].entry \in pel' \/ slot'[v][t].entry <= trimmed'
  <2>1. slot' = slot /\ pel' = pel /\ trimmed' \in Nat /\ trimmed <= trimmed'
    BY <1>1, <1>9 DEF Publish, workVars
  <2> QED BY <1>1, <1>2, <1>3, <2>1 DEF Busy
<1>10. ASSUME (\E e \in Entries : GoIdle(e)) \/ UNCHANGED vars
       PROVE  slot'[v][t].entry \in pel' \/ slot'[v][t].entry <= trimmed'
  BY <1>2, <1>10 DEF GoIdle, vars, queueVars, workVars, Busy
<1> QED BY <1>4, <1>5, <1>6, <1>7, <1>8, <1>9, <1>10 DEF Next, WorkerStep, Fetch

\* An owed job is owed until its acknowledgement, or expires.
LEMMA OwedStep ==
  ASSUME IInv, IInv', [Next]_vars, NEW e \in Owed,
         ~\E w \in Workers, s \in Slots : Ack(w, s) /\ slot[w][s].entry = e
  PROVE  e \in Owed' \/ Len(log') - e >= MaxLen
<1>1. ASSUME NEW j \in Jobs, Publish(j) PROVE e \in Owed' \/ Len(log') - e >= MaxLen
  BY <1>1, RefinePublish DEF Delivery!Append1, Delivery!Expired
<1>2. ASSUME NEW w \in Workers, Claim(w) \/ ClaimReplyLost(w)
      PROVE  e \in Owed' \/ Len(log') - e >= MaxLen
  BY <1>2, RefineClaim DEF Claim, ClaimReplyLost, Delivery!Expire, Delivery!Expired
<1>3. ASSUME NEW w \in Workers, ReadNew(w) \/ ReadReplyLost(w) PROVE e \in Owed'
  BY <1>3, RefineRead DEF ReadNew, ReadReplyLost, Delivery!vars
<1>4. ASSUME NEW w \in Workers, Start(w) \/ Stop(w) \/ Drained(w) \/ Crash(w)
      PROVE  Owed' = Owed
  BY <1>4 DEF Start, Stop, Drained, Crash, IInv, GroupExists, queueVars, Owed, Entries
<1>5. ASSUME NEW w \in Workers, NEW s \in Slots, HandleStep(w, s) PROVE e \in Owed'
  BY <1>5 DEF HandleStep, AttemptEnds, BackoffEnds, DeadLetter, HookEnds, Ack, AckFails,
              queueVars, Owed, Entries
<1>6. ASSUME (\E x \in Entries : GoIdle(x)) \/ UNCHANGED vars PROVE Owed' = Owed
  BY <1>6 DEF GoIdle, vars, queueVars, Owed, Entries
<1> QED BY <1>1, <1>2, <1>3, <1>4, <1>5, <1>6 DEF Next, WorkerStep, Fetch

=============================================================================
