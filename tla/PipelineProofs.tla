--------------------------- MODULE PipelineProofs ---------------------------
(***************************************************************************)
(* Proofs about ImagePipeline, for all images and contents, workers, slots *)
(* and faults.  First: the size of a thumbnail.  Then: the queue of the    *)
(* pipeline is the queue of module JobQueue, so what JobQueueProofs proves *)
(* holds in the composition.  Then: what the rows claim about the object   *)
(* store is true, the thumbnails in it are those of module Thumbnail, no   *)
(* row is stranded, and a ready image is not processed again.              *)
(***************************************************************************)
EXTENDS ImagePipeline, FiniteSetTheorems, TLAPS

-----------------------------------------------------------------------------
(***************************************************************************)
(* The size of a thumbnail, for images and boxes of every size: it fits,   *)
(* is no larger than the image, has its shape to within a pixel, and is    *)
(* empty for extremely long images only, however the products are rounded. *)
(*                                                                         *)
(* A truncated product k of n and p/q satisfies  k*q <= n*p <= k*q + q     *)
(* whichever way it was rounded, and every fact follows from that.         *)
(***************************************************************************)
LEMMA Cancel ==
  ASSUME NEW a \in Int, NEW b \in Int, NEW q \in Positive, a * q <= b * q
  PROVE  a <= b
BY DEF Positive

\* Multiplication keeps an order.
LEMMA Monotone ==
  ASSUME NEW a \in Int, NEW b \in Int, NEW q \in Nat, a <= b
  PROVE  a * q <= b * q
OBVIOUS

\* What quotient and remainder are, as the provers know it.
LEMMA Division ==
  ASSUME NEW m \in Nat, NEW q \in Positive
  PROVE  /\ m \div q \in Nat /\ m % q \in 0..(q - 1)
         /\ m = (m \div q) * q + (m % q)
BY DEF Positive

\* What truncation leaves of n * p/q.
LEMMA TruncatedBounds ==
  ASSUME NEW n \in Positive, NEW p \in Positive, NEW q \in Positive, p <= q,
         NEW k \in Truncated(n, <<p, q>>)
  PROVE  /\ k \in Nat /\ k * q <= n * p /\ n * p <= k * q + q
         /\ p = q => k = n
<1> DEFINE m == n * p
           f == m \div q
<1>1. m \in Nat /\ m > 0
  BY DEF Positive
<1>2. f \in Nat /\ m % q \in 0..(q - 1) /\ m = f * q + (m % q)
  BY <1>1, Division
<1>3. CASE k = f
  <2>1. f * q <= m /\ m <= f * q + q
    BY <1>1, <1>2 DEF Positive
  <2>2. ASSUME p = q PROVE f = n
    <3>1. f * q <= n * q /\ n * q <= f * q + q
      BY <2>1, <2>2
    <3>2. f <= n
      BY <3>1, <1>2, Cancel DEF Positive
    <3>3. n * q = f * q + (m % q)
      BY <1>2, <2>2
    <3>4. (n - f) * q = m % q
      BY <3>3, <1>2 DEF Positive
    <3>5. n - f < 1
      <4>1. SUFFICES ASSUME n - f >= 1 PROVE FALSE
        BY <1>2 DEF Positive
      <4>2. 1 * q <= (n - f) * q
        BY <4>1, <1>2, Monotone DEF Positive
      <4> QED
        BY <4>2, <3>4, <1>2 DEF Positive
    <3> QED
      BY <3>2, <3>5, <1>2 DEF Positive
  <2> QED
    BY <1>3, <1>2, <2>1, <2>2
<1>4. CASE k = f - 1 /\ p # q /\ m % q = 0
  <2>1. m = f * q
    BY <1>2, <1>4 DEF Positive
  <2>2. f # 0
    BY <1>1, <2>1 DEF Positive
  <2>3. (f - 1) * q = f * q - q
    BY <1>2 DEF Positive
  <2> HIDE DEF f, m
  <2>4. k \in Nat /\ k * q = m - q
    BY <1>2, <1>4, <2>1, <2>2, <2>3
  <2> QED
    BY <1>1, <1>4, <2>4 DEF m, Positive
<1>5. k = f \/ (k = f - 1 /\ p # q /\ m % q = 0)
  BY DEF Truncated
<1> QED
  BY <1>3, <1>4, <1>5

\* The scale of an image into a square box.
LEMMA ScaleCases ==
  ASSUME NEW w \in Positive, NEW h \in Positive, NEW T \in Positive
  PROVE  \/ Scale(w, h, T, T) = <<1, 1>> /\ w <= T /\ h <= T
         \/ Scale(w, h, T, T) = <<T, h>> /\ w <= h /\ T <= h
         \/ Scale(w, h, T, T) = <<T, w>> /\ h <= w /\ T <= w
<1>1. CASE T * w < T * h
  <2>1. w <= h
    <3>1. w * T <= h * T
      BY <1>1 DEF Positive
    <3> QED
      BY <3>1, Cancel DEF Positive
  <2> QED
    BY <1>1, <2>1 DEF Scale, Positive
<1>2. CASE ~(T * w < T * h)
  <2>1. h <= w
    <3>1. h * T <= w * T
      BY <1>2 DEF Positive
    <3> QED
      BY <3>1, Cancel DEF Positive
  <2> QED
    BY <1>2, <2>1 DEF Scale, Positive
<1> QED
  BY <1>1, <1>2

\* One side n of the thumbnail, scaled by p/q = T/q where q is the longer side.
LEMMA SideFits ==
  ASSUME NEW n \in Positive, NEW q \in Positive, NEW T \in Positive,
         NEW k \in Nat, n <= q, T <= q, k * q <= n * T
  PROVE  k <= T /\ k <= n
<1>1. n * T <= q * T
  BY Monotone DEF Positive
<1>2. T * n <= q * n
  BY Monotone DEF Positive
<1>3. k * q <= T * q /\ k * q <= n * q
  BY <1>1, <1>2 DEF Positive
<1> QED
  BY <1>3, Cancel DEF Positive

\* Two sides truncated alike differ from the shape of the original by less than
\* a pixel of either.
LEMMA Skew ==
  ASSUME NEW w \in Positive, NEW h \in Positive, NEW p \in Positive, NEW q \in Positive,
         NEW a \in Nat, NEW b \in Nat,
         a * q <= w * p, h * p <= b * q + q
  PROVE  a * h - b * w <= w
<1>1. (a * q) * h <= (w * p) * h
  BY Monotone DEF Positive
<1>2. (h * p) * w <= (b * q + q) * w
  BY Monotone DEF Positive
<1>3. (w * p) * h = (h * p) * w
  BY DEF Positive
<1>4. (a * q) * h <= (b * q + q) * w
  BY <1>1, <1>2, <1>3 DEF Positive
<1>5. (a * q) * h = (a * h) * q /\ (b * q + q) * w = (b * w + w) * q
  BY DEF Positive
<1>6. a * h \in Int /\ b * w + w \in Int
  BY DEF Positive
<1>7. a * h <= b * w + w
  BY <1>4, <1>5, <1>6, Cancel
<1> QED
  BY <1>6, <1>7 DEF Positive

\* "GenerateThumbnail ... maintaining aspect ratio ... Don't upscale images": the
\* thumbnail of any image the decoder may hand over, in a square box of any size.
THEOREM ThumbnailFits ==
  ASSUME NEW w \in Positive, NEW h \in Positive, NEW T \in Positive,
         NEW d \in Sizes(w, h, T, T)
  PROVE  /\ InBox(d, T, T) /\ NotUpscaled(d, w, h) /\ Undistorted(d, w, h)
         /\ Empty(d) => Elongated(w, h, T, T)
<1> DEFINE s == Scale(w, h, T, T)
<1>1. d.width \in Truncated(w, s) /\ d.height \in Truncated(h, s)
  BY DEF Sizes
<1>2. ASSUME NEW p \in Positive, NEW q \in Positive, p <= q, s = <<p, q>>
      PROVE  /\ d.width \in Nat /\ d.height \in Nat
             /\ d.width * q <= w * p /\ w * p <= d.width * q + q
             /\ d.height * q <= h * p /\ h * p <= d.height * q + q
             /\ p = q => d.width = w /\ d.height = h
             /\ Undistorted(d, w, h)
  <2> HIDE DEF s
  <2>1. d.width \in Truncated(w, <<p, q>>) /\ d.height \in Truncated(h, <<p, q>>)
    BY <1>1, <1>2
  <2>2. /\ d.width \in Nat /\ d.width * q <= w * p /\ w * p <= d.width * q + q
        /\ p = q => d.width = w
    BY <1>2, <2>1, TruncatedBounds
  <2>3. /\ d.height \in Nat /\ d.height * q <= h * p /\ h * p <= d.height * q + q
        /\ p = q => d.height = h
    BY <1>2, <2>1, TruncatedBounds
  <2>4. d.width * h - d.height * w <= w
    BY <2>2, <2>3, Skew
  <2>5. d.height * w - d.width * h <= h
    BY <2>2, <2>3, Skew
  <2>6. -(d.width * h - d.height * w) = d.height * w - d.width * h
    BY <2>2, <2>3 DEF Positive
  <2> QED
    BY <2>2, <2>3, <2>4, <2>5, <2>6 DEF Undistorted
<1>3. CASE s = <<1, 1>> /\ w <= T /\ h <= T
  <2>1. 1 \in Positive
    BY DEF Positive
  <2>2. d.width = w /\ d.height = h /\ Undistorted(d, w, h)
    BY <1>2, <1>3, <2>1
  <2> QED
    BY <1>3, <2>2 DEF InBox, NotUpscaled, Empty, Positive
<1>4. CASE s = <<T, h>> /\ w <= h /\ T <= h
  <2>1. /\ d.width \in Nat /\ d.height \in Nat
        /\ d.width * h <= w * T /\ w * T <= d.width * h + h
        /\ d.height * h <= h * T /\ h * T <= d.height * h + h
        /\ T = h => d.width = w /\ d.height = h
        /\ Undistorted(d, w, h)
    BY <1>2, <1>4
  <2>2. d.width <= T /\ d.width <= w
    BY <1>4, <2>1, SideFits
  <2>3. d.height <= T /\ d.height <= h
    BY <1>4, <2>1, SideFits DEF Positive
  <2>4. ASSUME Empty(d) PROVE Elongated(w, h, T, T)
    <3>1. CASE d.width = 0
      <4>1. d.width * h + h = h
        BY <3>1 DEF Positive
      <4>2. w * T = T * w
        BY DEF Positive
      <4> QED
        BY <2>1, <4>1, <4>2 DEF Elongated
    <3>2. CASE d.height = 0
      <4>1. h * T <= h * 1
        BY <2>1, <3>2 DEF Positive
      <4>2. T <= 1
        <5>1. T * h <= 1 * h
          BY <4>1 DEF Positive
        <5> QED
          BY <5>1, Cancel DEF Positive
      <4>3. T * w <= h
        BY <1>4, <4>2 DEF Positive
      <4> QED
        BY <4>3 DEF Elongated
    <3> QED
      BY <2>4, <3>1, <3>2 DEF Empty
  <2> QED
    BY <2>1, <2>2, <2>3, <2>4 DEF InBox, NotUpscaled, Positive
<1>5. CASE s = <<T, w>> /\ h <= w /\ T <= w
  <2>1. /\ d.width \in Nat /\ d.height \in Nat
        /\ d.width * w <= w * T /\ w * T <= d.width * w + w
        /\ d.height * w <= h * T /\ h * T <= d.height * w + w
        /\ Undistorted(d, w, h)
    BY <1>2, <1>5
  <2>2. d.width <= T /\ d.width <= w
    BY <1>5, <2>1, SideFits DEF Positive
  <2>3. d.height <= T /\ d.height <= h
    BY <1>5, <2>1, SideFits
  <2>4. ASSUME Empty(d) PROVE Elongated(w, h, T, T)
    <3>1. CASE d.height = 0
      <4>1. d.height * w + w = w
        BY <3>1 DEF Positive
      <4>2. h * T = T * h
        BY DEF Positive
      <4> QED
        BY <2>1, <4>1, <4>2 DEF Elongated
    <3>2. CASE d.width = 0
      <4>1. w * T <= w * 1
        BY <2>1, <3>2 DEF Positive
      <4>2. T <= 1
        <5>1. T * w <= 1 * w
          BY <4>1 DEF Positive
        <5> QED
          BY <5>1, Cancel DEF Positive
      <4>3. T * h <= w
        BY <1>5, <4>2 DEF Positive
      <4> QED
        BY <4>3 DEF Elongated
    <3> QED
      BY <2>4, <3>1, <3>2 DEF Empty
  <2> QED
    BY <2>1, <2>2, <2>3, <2>4 DEF InBox, NotUpscaled, Positive
<1> QED
  BY <1>3, <1>4, <1>5, ScaleCases

-----------------------------------------------------------------------------
(* The queue. *)

QP == INSTANCE JobQueueProofs WITH Jobs <- Images, Malformed <- {}

\* The constants of the pipeline are what the queue assumes of its own.
LEMMA QueueAssumptions ==
  /\ {} \subseteq Images /\ QP!IsFiniteSet(Slots)
  /\ MaxAttempts \in Nat \ {0} /\ MaxLen \in Nat \ {0} /\ MayOverrun \in BOOLEAN
  /\ MaxJobs \in Nat /\ MaxFaults \in Nat /\ MaxStops \in Nat
BY QueueAssumption DEF QP!IsFiniteSet, IsFiniteSet

-----------------------------------------------------------------------------
(* The queue's actions as ImagePipeline and as the proofs name them. *)

\* The pipeline starts with the queue's initial state.
LEMMA QueueInit == Init => QP!Init
BY DEF Init, Q!Init, QP!Init, Q!Free, QP!Free

\* A worker's fetch is the queue's.
LEMMA QueueFetch == ASSUME NEW w \in Workers, Q!Fetch(w) PROVE QP!Fetch(w)
<1> USE DEF Q!workVars, QP!workVars, Q!historyVars, QP!historyVars, Q!budgetVars, QP!budgetVars
<1>1. \A S : Q!Dispatch(w, S) <=> QP!Dispatch(w, S)
  BY DEF Q!Dispatch, QP!Dispatch, Q!FreeSlots, QP!FreeSlots, Q!Busy, QP!Busy,
         Q!Opened, QP!Opened
<1>2. Q!Counts(w) = QP!Counts(w)
  BY DEF Q!Counts, QP!Counts, Q!FreeSlots, QP!FreeSlots, Q!Busy, QP!Busy,
         Q!Cardinality, QP!Cardinality
<1>3. CASE Q!Claim(w)
  <2>1. \A k : Q!ClaimReply(k) = QP!ClaimReply(k)
    BY DEF Q!ClaimReply, QP!ClaimReply, Q!Oldest, QP!Oldest, Q!Cardinality, QP!Cardinality
  <2>2. \A g, c : Q!AutoClaim(g, c) <=> QP!AutoClaim(g, c)
    BY DEF Q!AutoClaim, QP!AutoClaim
  <2> QED
    BY <1>1, <1>2, <1>3, <2>1, <2>2 DEF Q!Claim, QP!Claim, QP!Fetch
<1>4. CASE Q!ReadNew(w)
  <2>1. \A k : Q!ReadGroup(k) <=> QP!ReadGroup(k)
    BY DEF Q!ReadGroup, QP!ReadGroup, Q!LastRead, QP!LastRead, Q!LastUnreadable,
           QP!LastUnreadable, Q!NewEntries, QP!NewEntries
  <2>2. \A k : Q!NewEntries(k) = QP!NewEntries(k)
    BY DEF Q!NewEntries, QP!NewEntries, Q!LastRead, QP!LastRead,
           Q!LastUnreadable, QP!LastUnreadable
  <2> QED
    BY <1>1, <1>2, <1>4, <2>1, <2>2 DEF Q!ReadNew, QP!ReadNew, QP!Fetch
<1> QED
  BY <1>3, <1>4 DEF Q!Fetch

\* The two lost replies of a fetch are the queue's.
LEMMA QueueRepliesLost ==
  ASSUME NEW w \in Workers, Q!ClaimReplyLost(w) \/ Q!ReadReplyLost(w)
  PROVE  QP!ClaimReplyLost(w) \/ QP!ReadReplyLost(w)
<1> USE DEF Q!workVars, QP!workVars, Q!historyVars, QP!historyVars, Q!budgetVars, QP!budgetVars
<1>1. Q!Counts(w) = QP!Counts(w) /\ (Q!Fault <=> QP!Fault)
  BY DEF Q!Counts, QP!Counts, Q!FreeSlots, QP!FreeSlots, Q!Busy, QP!Busy,
         Q!Cardinality, QP!Cardinality, Q!Fault, QP!Fault
<1>2. \A k : /\ Q!ClaimReply(k) = QP!ClaimReply(k)
             /\ Q!ReadGroup(k) <=> QP!ReadGroup(k)
  BY DEF Q!ClaimReply, QP!ClaimReply, Q!Oldest, QP!Oldest, Q!Cardinality, QP!Cardinality,
         Q!ReadGroup, QP!ReadGroup, Q!LastRead, QP!LastRead,
         Q!LastUnreadable, QP!LastUnreadable, Q!NewEntries, QP!NewEntries
<1>3. \A g, c : Q!AutoClaim(g, c) <=> QP!AutoClaim(g, c)
  BY DEF Q!AutoClaim, QP!AutoClaim
<1> QED
  BY <1>1, <1>2, <1>3
     DEF Q!ClaimReplyLost, QP!ClaimReplyLost, Q!ReadReplyLost, QP!ReadReplyLost

\* Start, stop, drain and crash are the queue's.
LEMMA QueueLoop ==
  ASSUME NEW w \in Workers
  PROVE  /\ Q!Start(w) => QP!Start(w)
         /\ Q!Drained(w) => QP!Drained(w)
         /\ Q!Stop(w) => QP!Stop(w)
         /\ Q!Crash(w) => QP!Crash(w)
BY DEF Q!workVars, QP!workVars, Q!historyVars, QP!historyVars, Q!budgetVars, QP!budgetVars,
       Q!queueVars, QP!queueVars, Q!Start, QP!Start, Q!Drained, QP!Drained, Q!Stop, QP!Stop,
       Q!Crash, QP!Crash, Q!Fault, QP!Fault, Q!Free, QP!Free,
       Q!FreeSlots, QP!FreeSlots, Q!Busy, QP!Busy

\* The stages of a handle call are the queue's.
LEMMA QueueHandle ==
  ASSUME NEW w \in Workers, NEW s \in Slots
  PROVE  /\ \A r : Q!AttemptEnds(w, s, r) => QP!AttemptEnds(w, s, r)
         /\ Q!BackoffEnds(w, s) => QP!BackoffEnds(w, s)
         /\ Q!DeadLetter(w, s) => QP!DeadLetter(w, s)
         /\ Q!HookEnds(w, s) => QP!HookEnds(w, s)
         /\ Q!Ack(w, s) => QP!Ack(w, s)
         /\ Q!AckFails(w, s) => QP!AckFails(w, s)
<1> USE DEF Q!workVars, QP!workVars, Q!historyVars, QP!historyVars, Q!budgetVars, QP!budgetVars,
            Q!queueVars, QP!queueVars, Q!At, QP!At, Q!Goto, QP!Goto
<1>1. \A r : Q!AttemptEnds(w, s, r) => QP!AttemptEnds(w, s, r)
  BY DEF Q!AttemptEnds, QP!AttemptEnds, Q!AfterAttempt, QP!AfterAttempt
<1>2. Q!BackoffEnds(w, s) => QP!BackoffEnds(w, s)
  BY DEF Q!BackoffEnds, QP!BackoffEnds
<1>3. Q!DeadLetter(w, s) => QP!DeadLetter(w, s)
  BY DEF Q!DeadLetter, QP!DeadLetter, Q!Fault, QP!Fault
<1>4. Q!HookEnds(w, s) => QP!HookEnds(w, s)
  BY DEF Q!HookEnds, QP!HookEnds
<1>5. /\ Q!Ack(w, s) => QP!Ack(w, s)
      /\ Q!AckFails(w, s) => QP!AckFails(w, s)
  BY DEF Q!Ack, QP!Ack, Q!AckFails, QP!AckFails, Q!Fault, QP!Fault, Q!Free, QP!Free
<1> QED
  BY <1>1, <1>2, <1>3, <1>4, <1>5

\* Publishing and the clock of idle entries are the queue's.
LEMMA QueueOutside ==
  /\ \A j : Q!Publish(j) => QP!Publish(j)
  /\ \A e : Q!GoIdle(e) => QP!GoIdle(e)
BY DEF Q!workVars, QP!workVars, Q!historyVars, QP!historyVars, Q!budgetVars, QP!budgetVars,
       Q!Publish, QP!Publish, Q!GoIdle, QP!GoIdle, Q!Handling, QP!Handling, Q!Busy, QP!Busy

\* Every step of the pipeline is a step of the queue, or none.
LEMMA QueueStepOrStutter == [Next]_vars => [QP!Next]_(QP!vars)
<1> SUFFICES ASSUME [Next]_vars PROVE QP!Next \/ UNCHANGED QP!vars
  OBVIOUS
<1> USE DEF QP!vars, QP!queueVars, QP!workVars, QP!historyVars, QP!budgetVars
<1>1. CASE UNCHANGED vars
  BY <1>1 DEF vars, queue
<1>2. ASSUME NEW i \in Images, UploadStep(i) \/ RequestCut(i) \/ DeleteStep(i)
      PROVE  QP!Next \/ UNCHANGED QP!vars
  <2>1. Q!Publish(i) \/ UNCHANGED queue
    BY <1>2 DEF UploadStep, Store, ProcessTags, InsertRow, LinkTags, Enqueue, MarkUnqueued,
                RequestCut, DeleteStep, DeleteLoad, DeleteRow, CleanupStorage
  <2> QED
    BY <2>1, QueueOutside DEF queue, QP!Next
<1>3. ASSUME NEW w \in Workers, NEW s \in Slots, HandleStep(w, s)
      PROVE  QP!Next \/ UNCHANGED QP!vars
  <2>1. \/ UNCHANGED queue
        \/ \E r \in {"ok", "skip", "transient", "permanent"} : Q!AttemptEnds(w, s, r)
        \/ Q!HookEnds(w, s)
        \/ Q!BackoffEnds(w, s) \/ Q!DeadLetter(w, s) \/ Q!Ack(w, s) \/ Q!AckFails(w, s)
    BY <1>3 DEF HandleStep, Load, Mark, Process, StoreThumbnail, Complete, OnDeadLetter,
                QueueStep, Return, Proceed
  <2>2. UNCHANGED queue \/ QP!HandleStep(w, s)
    BY <2>1, QueueHandle DEF QP!HandleStep, QP!Results
  <2> QED
    BY <2>2 DEF queue, QP!Next, QP!WorkerStep
<1>4. ASSUME NEW w \in Workers, LoopStep(w) \/ LoopFault(w) \/ Crash(w)
      PROVE  QP!Next
  <2>1. \/ Q!Start(w) \/ Q!Drained(w) \/ Q!Fetch(w) \/ Q!Stop(w) \/ Q!Crash(w)
        \/ Q!ClaimReplyLost(w) \/ Q!ReadReplyLost(w)
    BY <1>4 DEF LoopStep, LoopFault, Crash
  <2> QED
    BY <2>1, QueueLoop, QueueFetch, QueueRepliesLost DEF QP!Next, QP!WorkerStep
<1>5. ASSUME NEW e \in 1..Len(log), GoIdle(e)
      PROVE  QP!Next
  BY <1>5, QueueOutside DEF GoIdle, QP!Next, QP!Entries
<1> QED
  BY <1>1, <1>2, <1>3, <1>4, <1>5 DEF Next

\* The queue of the pipeline is the job queue: publishing from within an upload,
\* and a handler that makes calls to other stores, add no behaviour to it.
THEOREM QueueRefinement == Spec => QP!Spec
<1>1. Init => QP!Init
  BY QueueInit
<1>2. [Next]_vars => [QP!Next]_(QP!vars)
  BY QueueStepOrStutter
<1> QED
  BY <1>1, <1>2, PTL DEF Spec, QP!Spec

\* The inductive invariant of the queue holds in the pipeline.
LEMMA QueueInv == Spec => []QP!IInv
<1>1. QP!Init => QP!IInv
  BY QP!InitInv, QueueAssumptions
<1>2. QP!IInv /\ [QP!Next]_(QP!vars) => QP!IInv'
  BY QP!NextInv, QueueAssumptions
<1> QED
  BY <1>1, <1>2, QueueRefinement, PTL DEF QP!Spec

\* No job of the pipeline is lost, whatever the handler and the web role do.
THEOREM PipelineLosesNoJob == Spec => []QP!NoSilentLoss
<1>1. QP!Spec => []QP!NoSilentLoss
  BY QP!JobsAreNotLost, QueueAssumptions
<1> QED
  BY <1>1, QueueRefinement, PTL

-----------------------------------------------------------------------------
(***************************************************************************)
(* The inductive invariant of the pipeline.  RowsPointToObjects needs to   *)
(* know, of every upload and deletion under way, what it may still write   *)
(* or remove, and of every handle call between its StoreAt and its UPDATE  *)
(* that the thumbnail it is going to name is there.                        *)
(***************************************************************************)
Statuses == {"absent", "pending", "processing", "ready", "failed"}

Types ==
  /\ row \in [Images -> Statuses]
  /\ hasThumb \subseteq {i \in Images : row[i] # "absent"}
  /\ originals \subseteq Images /\ thumbnails \subseteq Images
  /\ upload \in [Images -> {"new", "stored", "tagged", "inserted", "saved",
                            "unqueued", "done", "failed", "compensated"}]
  /\ deletion \in [Images -> {"no", "loaded", "rowGone", "done"}]
  /\ stage \in [Workers -> [Slots -> {"load", "mark", "process", "store", "complete"}]]
  /\ stranded \subseteq Images /\ errors \in 0..MaxErrors

\* An upload that has no row yet has its object, and nobody deletes it.
Early ==
  \A i \in Images :
    /\ upload[i] \in {"new", "stored", "tagged"} => row[i] = "absent" /\ deletion[i] = "no"
    /\ upload[i] \in {"stored", "tagged"} => i \in originals

\* A deletion removes the object of no row.
Gone == \A i \in Images : deletion[i] \in {"rowGone", "done"} => row[i] = "absent"

Staged ==
  \A w \in Workers, s \in Slots :
    /\ stage[w][s] # "load" => slot[w][s].step = "attempt"
    /\ stage[w][s] \in {"store", "complete"} => MayRender(Content[ImageOf(w, s)])
    /\ stage[w][s] = "complete" => ImageOf(w, s) \in thumbnails

Rendered == \A i \in thumbnails : MayRender(Content[i])

Rows == RowsPointToObjects /\ Early /\ Gone
PInv == QP!IInv /\ Types /\ Rows /\ Staged /\ Rendered

-----------------------------------------------------------------------------
(* Handle calls. *)

\* What the queue's invariant says of handle calls: each has an entry of the log.
LEMMA Calls ==
  ASSUME QP!IInv
  PROVE  /\ slot \in [Workers -> [Slots -> QP!HandleCalls]]
         /\ log \in Seq(Images)
         /\ \A w \in Workers, s \in Slots :
              slot[w][s].step # "free" => slot[w][s].entry \in 1..Len(log)
BY DEF QP!IInv, QP!TypeOK, QP!Delivered, QP!Busy, QP!Entries

\* A call in an attempt works on an image.
LEMMA ImageOfCall ==
  ASSUME QP!IInv, NEW w \in Workers, NEW s \in Slots, slot[w][s].step = "attempt"
  PROVE  ImageOf(w, s) \in Images
<1>1. slot[w][s].entry \in 1..Len(log) /\ log \in Seq(Images)
  BY Calls
<1> QED
  BY <1>1 DEF ImageOf

\* A step that leaves the handle calls of attempts alone, as everything but the
\* steps of the handler does.
LEMMA StagedKept ==
  ASSUME QP!IInv, Staged, stage' = stage, thumbnails' = thumbnails,
         \A w \in Workers, s \in Slots :
           slot[w][s].step = "attempt" => slot'[w][s] = slot[w][s],
         \A e \in 1..Len(log) : log'[e] = log[e]
  PROVE  Staged'
<1> SUFFICES ASSUME NEW w \in Workers, NEW s \in Slots, stage[w][s] # "load"
             PROVE  /\ slot'[w][s].step = "attempt"
                    /\ stage[w][s] \in {"store", "complete"} =>
                         MayRender(Content[ImageOf(w, s)'])
                    /\ stage[w][s] = "complete" => ImageOf(w, s)' \in thumbnails
  BY DEF Staged
<1>1. slot[w][s].step = "attempt" /\ slot'[w][s] = slot[w][s]
  BY DEF Staged
<1>2. slot[w][s].entry \in 1..Len(log)
  BY <1>1, Calls
<1>3. ImageOf(w, s)' = ImageOf(w, s)
  BY <1>1, <1>2 DEF ImageOf
<1> QED
  BY <1>1, <1>3 DEF Staged

\* The handler returns.
LEMMA StagedReturn ==
  ASSUME QP!IInv, Types, Staged, NEW w \in Workers, NEW s \in Slots, NEW r,
         Return(w, s, r), thumbnails \subseteq thumbnails'
  PROVE  Staged' /\ stage' \in [Workers -> [Slots -> {"load", "mark", "process", "store", "complete"}]]
<1>1. /\ slot' = [slot EXCEPT ![w][s].step = Q!AfterAttempt(slot[w][s].n, r)]
      /\ log' = log
      /\ stage' = [stage EXCEPT ![w][s] = "load"]
  BY DEF Return, Q!AttemptEnds, Q!Goto, Q!queueVars
<1>2. stage' \in [Workers -> [Slots -> {"load", "mark", "process", "store", "complete"}]]
  BY <1>1 DEF Types
<1>3. slot \in [Workers -> [Slots -> QP!HandleCalls]]
  BY Calls
<1>4. ASSUME NEW v \in Workers, NEW t \in Slots
      PROVE  \/ stage'[v][t] = "load"
             \/ /\ stage'[v][t] = stage[v][t] /\ slot'[v][t] = slot[v][t]
                /\ ImageOf(v, t)' = ImageOf(v, t)
  <2>1. CASE v = w /\ t = s
    BY <1>1, <2>1 DEF Types
  <2>2. CASE ~(v = w /\ t = s)
    <3>1. slot'[v][t] = slot[v][t]
      BY <1>1, <1>3, <2>2
    <3>2. stage'[v][t] = stage[v][t]
      BY <1>1, <2>2 DEF Types
    <3> QED
      BY <1>1, <3>1, <3>2 DEF ImageOf
  <2> QED
    BY <2>1, <2>2
<1> QED
  BY <1>2, <1>4 DEF Staged

\* The handler goes on to its next call.
LEMMA StagedProceed ==
  ASSUME QP!IInv, Types, Staged, NEW w \in Workers, NEW s \in Slots,
         NEW to \in {"mark", "process", "store", "complete"},
         slot[w][s].step = "attempt", Proceed(w, s, to), thumbnails \subseteq thumbnails',
         to \in {"store", "complete"} => MayRender(Content[ImageOf(w, s)]),
         to = "complete" => ImageOf(w, s) \in thumbnails'
  PROVE  Staged' /\ stage' \in [Workers -> [Slots -> {"load", "mark", "process", "store", "complete"}]]
<1>1. slot' = slot /\ log' = log /\ stage' = [stage EXCEPT ![w][s] = to]
  BY DEF Proceed, queue
<1>2. stage' \in [Workers -> [Slots -> {"load", "mark", "process", "store", "complete"}]]
  BY <1>1 DEF Types
<1>3. \A v \in Workers, t \in Slots :
        stage'[v][t] = IF v = w /\ t = s THEN to ELSE stage[v][t]
  BY <1>1 DEF Types
<1>4. \A v \in Workers, t \in Slots : ImageOf(v, t)' = ImageOf(v, t)
  BY <1>1 DEF ImageOf
<1> QED
  BY <1>1, <1>2, <1>3, <1>4 DEF Staged

-----------------------------------------------------------------------------
(* The web role. *)

\* Publishing and steps outside the queue leave every handle call as it is.
LEMMA StagedPublish ==
  ASSUME QP!IInv, Staged, NEW i \in Images, Q!Publish(i) \/ UNCHANGED queue,
         stage' = stage, thumbnails' = thumbnails
  PROVE  Staged'
<1>1. slot' = slot /\ (log' = log \/ log' = Append(log, i))
  BY DEF Q!Publish, Q!workVars, queue
<1>2. log \in Seq(Images)
  BY Calls
<1>3. \A e \in 1..Len(log) : log'[e] = log[e]
  BY <1>1, <1>2
<1> QED
  BY <1>1, <1>3, StagedKept

\* The calls that failed stay within their bound.
LEMMA ErrorsBounded ==
  ASSUME Types, NEW op, Works \/ Fails(op)
  PROVE  errors' \in 0..MaxErrors
BY ErrorsAssumption DEF Types, Works, Fails

\* The steps of an upload keep the invariant: the object is there before the row.
LEMMA UploadInv ==
  ASSUME PInv, NEW i \in Images, UploadStep(i) \/ RequestCut(i)
  PROVE  (Types /\ Rows /\ Staged /\ Rendered)'
<1> USE DEF PInv
<1>1. Staged' /\ Rendered' /\ stage' = stage /\ thumbnails' = thumbnails
  <2>1. /\ Q!Publish(i) \/ UNCHANGED queue
        /\ stage' = stage /\ thumbnails' = thumbnails
    BY DEF UploadStep, Store, ProcessTags, InsertRow, LinkTags, Enqueue, MarkUnqueued,
           RequestCut, objectVars
  <2> QED
    BY <2>1, StagedPublish DEF Rendered
<1>2. errors' \in 0..MaxErrors
  <2>1. Works \/ \E op : Fails(op)
    BY DEF UploadStep, Store, ProcessTags, InsertRow, LinkTags, Enqueue, MarkUnqueued, RequestCut
  <2> QED
    BY <2>1, ErrorsBounded
<1> USE DEF Upload, rowVars, objectVars, webVars
<1>3. CASE Store(i)
  <2>1. Types'
    BY <1>1, <1>2, <1>3 DEF Store, Types
  <2>2. Rows'
    BY <1>3 DEF Store, Types, Rows, RowsPointToObjects, Early, Gone
  <2> QED BY <1>1, <2>1, <2>2
<1>4. CASE ProcessTags(i)
  <2>1. Types'
    BY <1>1, <1>2, <1>4 DEF ProcessTags, Types
  <2>2. Rows'
    BY <1>4 DEF ProcessTags, Types, Rows, RowsPointToObjects, Early, Gone
  <2> QED BY <1>1, <2>1, <2>2
<1>5. CASE InsertRow(i)
  <2>1. Types'
    BY <1>1, <1>2, <1>5 DEF InsertRow, Inserted, DropObject, Types, Statuses
  <2>2. Rows'
    BY <1>5 DEF InsertRow, Inserted, DropObject, Types, Rows, RowsPointToObjects, Early, Gone
  <2> QED BY <1>1, <2>1, <2>2
<1>6. CASE LinkTags(i)
  <2>1. Types'
    BY <1>1, <1>2, <1>6 DEF LinkTags, DropObject, Types
  <2>2. Rows'
    BY <1>6 DEF LinkTags, DropObject, Types, Rows, RowsPointToObjects, Early, Gone
  <2> QED BY <1>1, <2>1, <2>2
<1>7. CASE Enqueue(i)
  <2>1. Types'
    BY <1>1, <1>2, <1>7 DEF Enqueue, Types
  <2>2. Rows'
    BY <1>7 DEF Enqueue, Types, Rows, RowsPointToObjects, Early, Gone
  <2> QED BY <1>1, <2>1, <2>2
<1>8. CASE MarkUnqueued(i)
  <2>1. Types'
    BY <1>1, <1>2, <1>8 DEF MarkUnqueued, SetStatus, Types, Statuses
  <2>2. Rows'
    BY <1>8 DEF MarkUnqueued, SetStatus, Types, Rows, RowsPointToObjects, Early, Gone
  <2> QED BY <1>1, <2>1, <2>2
<1>9. CASE RequestCut(i)
  <2>1. Types'
    BY <1>1, <1>2, <1>9 DEF RequestCut, Types
  <2>2. Rows'
    BY <1>9 DEF RequestCut, Types, Rows, RowsPointToObjects, Early, Gone
  <2> QED BY <1>1, <2>1, <2>2
<1> QED
  BY <1>3, <1>4, <1>5, <1>6, <1>7, <1>8, <1>9 DEF UploadStep

\* The steps of a deletion keep it: the row goes before the object.
LEMMA DeleteInv ==
  ASSUME PInv, NEW i \in Images, DeleteStep(i)
  PROVE  (Types /\ Rows /\ Staged /\ Rendered)'
<1> USE DEF PInv
<1>1. Staged' /\ Rendered' /\ stage' = stage /\ thumbnails' = thumbnails
  <2>1. UNCHANGED queue /\ stage' = stage /\ thumbnails' = thumbnails
    BY DEF DeleteStep, DeleteLoad, DeleteRow, CleanupStorage, objectVars
  <2> QED
    BY <2>1, StagedPublish DEF Rendered
<1>2. errors' \in 0..MaxErrors
  <2>1. Works \/ \E op : Fails(op)
    BY DEF DeleteStep, DeleteLoad, DeleteRow, CleanupStorage
  <2> QED
    BY <2>1, ErrorsBounded
<1> USE DEF Delete, rowVars, objectVars, webVars
<1>3. CASE DeleteLoad(i)
  <2>1. Types'
    BY <1>1, <1>2, <1>3 DEF DeleteLoad, Types
  <2>2. Rows'
    BY <1>3 DEF DeleteLoad, Types, Rows, RowsPointToObjects, Early, Gone
  <2> QED BY <1>1, <2>1, <2>2
<1>4. CASE DeleteRow(i)
  <2>1. Types'
    BY <1>1, <1>2, <1>4 DEF DeleteRow, RemoveRow, Types, Statuses
  <2>2. Rows'
    BY <1>4 DEF DeleteRow, RemoveRow, Types, Rows, RowsPointToObjects, Early, Gone
  <2> QED BY <1>1, <2>1, <2>2
<1>5. CASE CleanupStorage(i)
  <2>1. Types'
    BY <1>1, <1>2, <1>5 DEF CleanupStorage, Types
  <2>2. Rows'
    BY <1>5 DEF CleanupStorage, Types, Rows, RowsPointToObjects, Early, Gone
  <2> QED BY <1>1, <2>1, <2>2
<1> QED
  BY <1>3, <1>4, <1>5 DEF DeleteStep

-----------------------------------------------------------------------------
(* The worker. *)

\* The steps of the handler keep it: the thumbnail is stored before the row names it.
LEMMA HandlerInv ==
  ASSUME PInv, NEW w \in Workers, NEW s \in Slots,
         Load(w, s) \/ Mark(w, s) \/ Process(w, s) \/ StoreThumbnail(w, s) \/ Complete(w, s)
  PROVE  (Types /\ Rows /\ Staged /\ Rendered)'
<1> USE DEF PInv
<1> DEFINE i == ImageOf(w, s)
<1>1. slot[w][s].step = "attempt" /\ i \in Images
  <2>1. slot[w][s].step = "attempt"
    BY DEF Load, Mark, Process, StoreThumbnail, Complete, AtStage, Q!At
  <2> QED
    BY <2>1, ImageOfCall
<1>2. errors' \in 0..MaxErrors
  <2>1. Works \/ \E op : Fails(op)
    BY DEF Load, Mark, Process, StoreThumbnail, Complete
  <2> QED
    BY <2>1, ErrorsBounded
<1>3. UNCHANGED <<originals, upload, deletion>> /\ thumbnails \subseteq thumbnails'
  BY DEF Load, Mark, Process, StoreThumbnail, Complete, objectVars, webVars
<1> DEFINE StageType == stage' \in [Workers -> [Slots -> {"load", "mark", "process", "store", "complete"}]]
<1>4. CASE Load(w, s)
  <2>1. UNCHANGED <<row, hasThumb, thumbnails, stranded>>
    BY <1>4 DEF Load, rowVars, objectVars
  <2>2. Staged' /\ StageType
    <3>1. (\E r : Return(w, s, r)) \/ Proceed(w, s, "mark")
      BY <1>4 DEF Load
    <3> QED
      BY <1>1, <2>1, <3>1, StagedReturn, StagedProceed
  <2>3. Types' /\ Rows' /\ Rendered'
    BY <1>2, <1>3, <2>1, <2>2 DEF Types, Rows, RowsPointToObjects, Early, Gone, Rendered
  <2> QED BY <2>2, <2>3
<1>5. CASE Mark(w, s)
  <2>1. UNCHANGED <<hasThumb, thumbnails, stranded>>
    BY <1>5 DEF Mark, objectVars
  <2>2. Staged' /\ StageType
    <3>1. (\E r : Return(w, s, r)) \/ Proceed(w, s, "process")
      BY <1>5 DEF Mark
    <3> QED
      BY <1>1, <2>1, <3>1, StagedReturn, StagedProceed
  <2>3. row' = row \/ (row[i] # "absent" /\ row' = [row EXCEPT ![i] = "processing"])
    BY <1>5 DEF Mark, SetStatus
  <2> HIDE DEF i
  <2>4. Types' /\ Rows' /\ Rendered'
    BY <1>1, <1>2, <1>3, <2>1, <2>2, <2>3
       DEF Types, Statuses, Rows, RowsPointToObjects, Early, Gone, Rendered
  <2> QED BY <2>2, <2>4
<1>6. CASE Process(w, s)
  <2>1. UNCHANGED <<row, hasThumb, thumbnails, stranded>>
    BY <1>6 DEF Process, rowVars, objectVars
  <2>2. Staged' /\ StageType
    <3>1. (\E r : Return(w, s, r)) \/ (Proceed(w, s, "store") /\ MayRender(Content[i]))
      BY <1>6 DEF Process
    <3> QED
      BY <1>1, <2>1, <3>1, StagedReturn, StagedProceed
  <2>3. Types' /\ Rows' /\ Rendered'
    BY <1>2, <1>3, <2>1, <2>2 DEF Types, Rows, RowsPointToObjects, Early, Gone, Rendered
  <2> QED BY <2>2, <2>3
<1>7. CASE StoreThumbnail(w, s)
  <2>1. UNCHANGED <<row, hasThumb, stranded>>
    BY <1>7 DEF StoreThumbnail, rowVars
  <2>2. MayRender(Content[i])
    BY <1>7 DEF StoreThumbnail, AtStage, Staged
  <2>3. thumbnails' = thumbnails \/ thumbnails' = thumbnails \cup {i}
    BY <1>7 DEF StoreThumbnail
  <2>4. Staged' /\ StageType
    <3>1. \/ \E r : Return(w, s, r)
          \/ Proceed(w, s, "complete") /\ thumbnails' = thumbnails \cup {i}
      BY <1>7 DEF StoreThumbnail
    <3> QED
      BY <1>1, <1>3, <2>2, <3>1, StagedReturn, StagedProceed
  <2> HIDE DEF i
  <2>5. Types' /\ Rows' /\ Rendered'
    BY <1>1, <1>2, <1>3, <2>1, <2>2, <2>3, <2>4
       DEF Types, Rows, RowsPointToObjects, Early, Gone, Rendered
  <2> QED BY <2>4, <2>5
<1>8. CASE Complete(w, s)
  <2>1. UNCHANGED <<thumbnails, stranded>> /\ i \in thumbnails
    BY <1>8 DEF Complete, objectVars, AtStage, Staged
  <2>2. Staged' /\ StageType
    <3>1. \E r : Return(w, s, r)
      BY <1>8 DEF Complete
    <3> QED
      BY <2>1, <3>1, StagedReturn
  <2>3. \/ UNCHANGED <<row, hasThumb>>
        \/ /\ row[i] # "absent" /\ row' = [row EXCEPT ![i] = "ready"]
           /\ hasThumb' = hasThumb \cup {i}
    BY <1>8 DEF Complete, CompleteRow, rowVars
  <2> HIDE DEF i
  <2>4. Types'
    BY <1>1, <1>2, <1>3, <2>1, <2>2, <2>3 DEF Types, Statuses
  <2>5. Rows'
    <3>1. RowsPointToObjects'
      BY <1>1, <1>3, <2>1, <2>3 DEF Types, Rows, RowsPointToObjects
    <3>2. Early' /\ Gone'
      BY <1>1, <1>3, <2>3 DEF Types, Rows, Early, Gone
    <3> QED
      BY <3>1, <3>2 DEF Rows
  <2>6. Rendered'
    BY <2>1 DEF Rendered
  <2> QED BY <2>2, <2>4, <2>5, <2>6
<1> QED
  BY <1>4, <1>5, <1>6, <1>7, <1>8

\* The hook, and what the consumer does around the handler.
LEMMA HookInv ==
  ASSUME PInv, NEW w \in Workers, NEW s \in Slots, OnDeadLetter(w, s) \/ QueueStep(w, s)
  PROVE  (Types /\ Rows /\ Staged /\ Rendered)'
<1> USE DEF PInv
<1> DEFINE i == ImageOf(w, s)
<1>1. /\ UNCHANGED <<hasThumb, originals, thumbnails, upload, deletion, stage>>
      /\ errors' \in 0..MaxErrors
  <2>1. UNCHANGED <<hasThumb, originals, thumbnails, upload, deletion, stage>>
    BY DEF OnDeadLetter, QueueStep, rowVars, objectVars, webVars
  <2>2. Works \/ \E op : Fails(op)
    BY DEF OnDeadLetter, QueueStep, Works
  <2> QED
    BY <2>1, <2>2, ErrorsBounded
<1>2. slot \in [Workers -> [Slots -> QP!HandleCalls]]
  BY Calls
<1>3. /\ slot[w][s].step # "attempt" /\ log' = log
      /\ \E c : slot' = [slot EXCEPT ![w][s] = c]
  <2>1. CASE OnDeadLetter(w, s)
    BY <2>1, <1>2 DEF OnDeadLetter, Q!HookEnds, Q!At, Q!Goto, Q!queueVars
  <2>2. CASE QueueStep(w, s)
    BY <2>2, <1>2 DEF QueueStep, Q!BackoffEnds, Q!DeadLetter, Q!Ack, Q!AckFails, Q!At, Q!Goto, Q!queueVars
  <2> QED
    BY <2>1, <2>2
<1>4. Staged'
  <2>1. \A v \in Workers, t \in Slots :
          slot[v][t].step = "attempt" => slot'[v][t] = slot[v][t]
    BY <1>2, <1>3
  <2> QED
    BY <1>1, <1>3, <2>1, StagedKept
<1>5. /\ row' = row \/ (row[i] # "absent" /\ row' = [row EXCEPT ![i] = "failed"])
      /\ stranded' = stranded \/ stranded' = stranded \cup {i}
  BY DEF OnDeadLetter, QueueStep, SetStatus, rowVars
<1>6. CASE OnDeadLetter(w, s)
  <2>1. i \in Images
    <3>1. slot[w][s].step = "hook"
      BY <1>6 DEF OnDeadLetter, Q!HookEnds, Q!At
    <3>2. slot[w][s].entry \in 1..Len(log) /\ log \in Seq(Images)
      BY <3>1, Calls
    <3> QED
      BY <3>2 DEF ImageOf
  <2> HIDE DEF i
  <2> QED
    BY <1>1, <1>4, <1>5, <2>1
       DEF Types, Statuses, Rows, RowsPointToObjects, Early, Gone, Rendered
<1>7. CASE QueueStep(w, s)
  <2>1. UNCHANGED <<row, stranded>>
    BY <1>7 DEF QueueStep, rowVars
  <2> QED
    BY <1>1, <1>4, <2>1 DEF Types, Rows, RowsPointToObjects, Early, Gone, Rendered
<1> QED
  BY <1>6, <1>7

\* Fetching opens handle calls in free slots, at their first step.
LEMMA FetchOpens ==
  ASSUME QP!IInv, NEW w \in Workers, QP!Fetch(w), NEW v \in Workers, NEW t \in Slots
  PROVE  \/ slot'[v][t] = slot[v][t]
         \/ slot[v][t].step = "free" /\ slot'[v][t].step \in {"attempt", "deadletter"}
<1>1. PICK S \in SUBSET QP!Entries : QP!Dispatch(w, S)
  <2>1. CASE QP!Claim(w)
    <3>1. PICK k \in QP!Counts(w) : QP!Dispatch(w, QP!ClaimReply(k).claimed)
      BY <2>1 DEF QP!Claim
    <3>2. QP!ClaimReply(k).claimed \subseteq QP!Entries
      BY QP!ClaimReplyWithin, QueueAssumptions DEF QP!IInv, QP!TypeOK
    <3> QED
      BY <3>1, <3>2
  <2>2. CASE QP!ReadNew(w)
    <3>1. PICK k \in QP!Counts(w) : QP!Dispatch(w, QP!NewEntries(k))
      BY <2>2 DEF QP!ReadNew
    <3>2. k \in Nat /\ k >= 1
      BY QP!CountsPositive, QueueAssumptions
    <3>3. \A e \in QP!NewEntries(k) : e \in QP!Entries
      BY <3>2, Calls, QP!LastReadBounds, QueueAssumptions DEF QP!IInv, QP!TypeOK
    <3> QED
      BY <3>1, <3>3
  <2> QED
    BY <2>1, <2>2 DEF QP!Fetch
<1>2. /\ \A u \in Workers, s \in Slots : u # w => slot'[u][s] = slot[u][s]
      /\ \A s \in Slots :
           \/ slot'[w][s] = slot[w][s]
           \/ ~QP!Busy(w, s) /\ slot'[w][s].step \in {"attempt", "deadletter"}
  BY <1>1, Calls, QP!DispatchEffect, QueueAssumptions
<1> QED
  BY <1>2 DEF QP!Busy

\* A fetch uses free slots only.
LEMMA FetchKeepsAttempts ==
  ASSUME QP!IInv, NEW w \in Workers, QP!Fetch(w), NEW v \in Workers, NEW t \in Slots,
         slot[v][t].step = "attempt"
  PROVE  slot'[v][t] = slot[v][t]
BY FetchOpens

\* What the read loop does keeps the invariant.
LEMMA LoopInv ==
  ASSUME PInv, NEW w \in Workers, LoopStep(w) \/ LoopFault(w) \/ Crash(w)
  PROVE  (Types /\ Rows /\ Staged /\ Rendered)'
<1> USE DEF PInv
<1>1. UNCHANGED <<row, hasThumb, originals, thumbnails, upload, deletion, stranded, errors>>
  BY DEF LoopStep, LoopFault, Crash, rowVars, objectVars, webVars
<1>2. log' = log
  BY DEF LoopStep, LoopFault, Crash, Q!Start, Q!Drained, Q!Fetch, Q!Claim, Q!AutoClaim,
         Q!ReadNew, Q!ReadGroup, Q!Stop, Q!ClaimReplyLost, Q!ReadReplyLost, Q!Crash, Q!queueVars
<1>3. CASE LoopStep(w) \/ LoopFault(w)
  <2>1. stage' = stage
    BY <1>3 DEF LoopStep, LoopFault
  <2>2. slot' = slot \/ QP!Fetch(w)
    BY <1>3, QueueFetch DEF LoopStep, LoopFault, Q!Start, Q!Drained, Q!Stop, Q!ClaimReplyLost,
       Q!ReadReplyLost, Q!workVars
  <2>3. \A v \in Workers, t \in Slots :
          slot[v][t].step = "attempt" => slot'[v][t] = slot[v][t]
    BY <2>2, FetchKeepsAttempts
  <2>4. Staged'
    BY <1>1, <1>2, <2>1, <2>3, StagedKept
  <2> QED
    BY <1>1, <2>1, <2>4 DEF Types, Rows, RowsPointToObjects, Early, Gone, Rendered
<1>4. CASE Crash(w)
  <2>1. /\ slot' = [slot EXCEPT ![w] = [s \in Slots |-> Q!Free]]
        /\ stage' = [stage EXCEPT ![w] = [s \in Slots |-> "load"]]
    BY <1>4 DEF Crash, Q!Crash
  <2>2. stage' \in [Workers -> [Slots -> {"load", "mark", "process", "store", "complete"}]]
    BY <2>1 DEF Types
  <2>3. \A v \in Workers, t \in Slots :
          \/ v = w /\ stage'[v][t] = "load"
          \/ /\ stage'[v][t] = stage[v][t] /\ slot'[v][t] = slot[v][t]
             /\ ImageOf(v, t)' = ImageOf(v, t)
    <3>1. slot \in [Workers -> [Slots -> QP!HandleCalls]]
      BY Calls
    <3> QED
      BY <1>2, <2>1, <3>1 DEF Types, ImageOf
  <2>4. Staged'
    BY <1>1, <2>3 DEF Staged
  <2> QED
    BY <1>1, <2>2, <2>4 DEF Types, Rows, RowsPointToObjects, Early, Gone, Rendered
<1> QED
  BY <1>3, <1>4

\* An entry that becomes idle changes nothing else.
LEMMA IdleInv ==
  ASSUME PInv, NEW e, GoIdle(e)
  PROVE  (Types /\ Rows /\ Staged /\ Rendered)'
<1> USE DEF PInv
<1>1. /\ UNCHANGED <<row, hasThumb, originals, thumbnails, upload, deletion, stage, stranded, errors>>
      /\ slot' = slot /\ log' = log
  BY DEF GoIdle, Q!GoIdle, Q!workVars, rowVars, objectVars, webVars
<1>2. Staged'
  BY <1>1, StagedKept
<1> QED
  BY <1>1, <1>2 DEF Types, Rows, RowsPointToObjects, Early, Gone, Rendered

-----------------------------------------------------------------------------
\* No rows, no objects, no calls.
LEMMA InitPInv == Init => PInv
<1> SUFFICES ASSUME Init PROVE PInv
  OBVIOUS
<1>1. QP!IInv
  BY QueueInit, QP!InitInv, QueueAssumptions
<1>2. Types
  BY ErrorsAssumption DEF Init, AllLoad, Types, Statuses
<1>3. Rows
  BY DEF Init, Rows, RowsPointToObjects, Early, Gone
<1>4. Staged /\ Rendered
  BY DEF Init, AllLoad, Staged, Rendered
<1> QED
  BY <1>1, <1>2, <1>3, <1>4 DEF PInv

\* Every step of the pipeline keeps the invariant.
LEMMA NextPInv == PInv /\ [Next]_vars => PInv'
<1> SUFFICES ASSUME PInv, [Next]_vars PROVE PInv'
  OBVIOUS
<1>1. QP!IInv'
  BY QueueStepOrStutter, QP!NextInv, QueueAssumptions DEF PInv
<1>2. (Types /\ Rows /\ Staged /\ Rendered)'
  <2>1. CASE UNCHANGED vars
    BY <2>1 DEF PInv, vars, queue, rowVars, objectVars, webVars, Types, Rows,
                RowsPointToObjects, Early, Gone, Staged, ImageOf, Rendered
  <2>2. CASE \E i \in Images : UploadStep(i) \/ RequestCut(i) \/ DeleteStep(i)
    BY <2>2, UploadInv, DeleteInv
  <2>3. CASE \E w \in Workers : LoopStep(w) \/ LoopFault(w) \/ Crash(w)
    BY <2>3, LoopInv
  <2>4. CASE \E w \in Workers, s \in Slots : HandleStep(w, s)
    BY <2>4, HandlerInv, HookInv DEF HandleStep
  <2>5. CASE \E e \in 1..Len(log) : GoIdle(e)
    BY <2>5, IdleInv
  <2> QED
    BY <2>1, <2>2, <2>3, <2>4, <2>5 DEF Next
<1> QED
  BY <1>1, <1>2 DEF PInv

\* For any images, workers, slots, failures and deletions the inductive invariant
\* holds.
THEOREM PipelineInvariance == Spec => []PInv
BY InitPInv, NextPInv, PTL DEF Spec

\* "The database never claims an object exists before it does", for any number of
\* images, workers, redeliveries, crashes, failed operations and deletions.
THEOREM RowsAreBacked == Spec => []RowsPointToObjects
<1>1. PInv => RowsPointToObjects
  BY DEF PInv, Rows
<1> QED
  BY <1>1, PipelineInvariance, PTL

\* Every thumbnail in the store fits the box, is no larger than its image and has
\* its shape; an empty one is of an extremely long image, and never a PNG.
THEOREM ThumbnailsAreFaithful == Spec => []ThumbnailsShowTheirImage
<1>1. PInv => ThumbnailsShowTheirImage
  <2> SUFFICES ASSUME PInv PROVE ThumbnailsShowTheirImage
    OBVIOUS
  <2>1. ASSUME NEW i \in thumbnails
        PROVE  LET b == Content[i]
               IN  /\ b.width * b.height <= maxPixels
                   /\ \A d \in ThumbnailSizes(b) :
                        /\ InBox(d, thumbSize, thumbSize)
                        /\ NotUpscaled(d, b.width, b.height)
                        /\ Undistorted(d, b.width, b.height)
                        /\ Empty(d) => Elongated(b.width, b.height, thumbSize, thumbSize)
                   /\ b.format = "png" => \E d \in ThumbnailSizes(b) : ~Empty(d)
    <3> DEFINE b == Content[i]
    <3>1. b \in Bytes /\ MayRender(b)
      BY ContentAssumption DEF PInv, Types, Rendered
    <3>2. b.width \in Positive /\ b.height \in Positive /\ thumbSize \in Positive
      BY <3>1, ThumbnailAssumption DEF Bytes, Positive
    <3>3. b.width * b.height <= maxPixels
      BY <3>1 DEF MayRender, Decoded
    <3>4. \A d \in ThumbnailSizes(b) :
            /\ InBox(d, thumbSize, thumbSize)
            /\ NotUpscaled(d, b.width, b.height)
            /\ Undistorted(d, b.width, b.height)
            /\ Empty(d) => Elongated(b.width, b.height, thumbSize, thumbSize)
      <4> HIDE DEF b
      <4> QED
        BY <3>2, ThumbnailFits DEF ThumbnailSizes
    <3>5. b.format = "png" => \E d \in ThumbnailSizes(b) : ~Empty(d)
      <4>1. PICK d \in ThumbnailSizes(b) : Encodes(b.format, d)
        BY <3>1 DEF MayRender
      <4> HIDE DEF b
      <4>2. b.format = "png" => d.width > 0 /\ d.height > 0
        BY <4>1 DEF Encodes
      <4>3. b.format = "png" => ~Empty(d)
        BY <4>2 DEF Empty
      <4> QED
        BY <4>3
    <3> QED
      BY <3>3, <3>4, <3>5
  <2> QED
    BY <2>1 DEF ThumbnailsShowTheirImage
<1> QED
  BY <1>1, PipelineInvariance, PTL

-----------------------------------------------------------------------------
(***************************************************************************)
(* No row is stranded.  NoStrandedRow is not inductive: the job a row      *)
(* waits for may be in the hands of a call that is about to acknowledge    *)
(* it.  So the job has to be one no call is acknowledging, and a call that *)
(* holds a job holds an owed or expired one (QP!Held).                     *)
(***************************************************************************)
Acking(e) == \E w \in Workers, s \in Slots : slot[w][s].step = "ack" /\ slot[w][s].entry = e

Waiting(i) ==
  upload[i] \in {"done", "failed", "compensated"} /\ row[i] \in {"pending", "processing"}

\* Entry e is going to move the row of image i, or is too old to promise that.
Moves(e, i) == log[e] = i /\ ((e \in QP!Owed /\ ~Acking(e)) \/ Len(log) - e >= MaxLen)

Awaited ==
  ~MayOverrun => \A i \in Images :
    Waiting(i) /\ i \notin stranded => \E e \in 1..Len(log) : Moves(e, i)

\* A call comes to its acknowledgement only with the row of its image settled.
LEMMA ReachesAck ==
  ASSUME PInv, [Next]_vars, NEW w \in Workers, NEW s \in Slots,
         slot'[w][s].step = "ack", slot'[w][s] # slot[w][s]
  PROVE  /\ slot'[w][s].entry = slot[w][s].entry
         /\ slot[w][s].entry \in 1..Len(log)
         /\ row'[ImageOf(w, s)] \notin {"pending", "processing"} \/ ImageOf(w, s) \in stranded'
<1>1. /\ slot \in [Workers -> [Slots -> QP!HandleCalls]] /\ log \in Seq(Images)
      /\ row \in [Images -> Statuses]
  BY Calls DEF PInv, Types
<1>2. ASSUME \/ slot' = slot
             \/ \E i \in Images : UploadStep(i) \/ RequestCut(i) \/ DeleteStep(i)
             \/ \E e \in 1..Len(log) : GoIdle(e)
             \/ UNCHANGED vars
      PROVE  FALSE
  BY <1>2 DEF UploadStep, Store, ProcessTags, InsertRow, LinkTags, Enqueue, MarkUnqueued,
              RequestCut, DeleteStep, DeleteLoad, DeleteRow, CleanupStorage, queue,
              Q!Publish, Q!workVars, GoIdle, Q!GoIdle, vars
<1>3. ASSUME NEW v \in Workers, LoopStep(v) \/ LoopFault(v) \/ Crash(v)
      PROVE  FALSE
  <2>1. CASE Q!Fetch(v)
    <3>1. QP!Fetch(v)
      BY <2>1, QueueFetch
    <3>2. slot'[w][s] = slot[w][s] \/ slot'[w][s].step \in {"attempt", "deadletter"}
      BY <3>1, FetchOpens DEF PInv
    <3> QED BY <3>2
  <2>2. CASE ~Q!Fetch(v)
    <3>1. slot'[w][s] = slot[w][s] \/ slot'[w][s].step = "free"
      BY <1>1, <1>3, <2>2 DEF LoopStep, LoopFault, Crash, Q!Start, Q!Drained, Q!Stop, Q!Crash,
         Q!ClaimReplyLost, Q!ReadReplyLost, Q!workVars, Q!Free
    <3> QED BY <3>1
  <2> QED BY <2>1, <2>2
<1>4. ASSUME NEW v \in Workers, NEW t \in Slots, HandleStep(v, t)
      PROVE  /\ slot'[w][s].entry = slot[w][s].entry
             /\ slot[w][s].entry \in 1..Len(log)
             /\ \/ row'[ImageOf(w, s)] \notin {"pending", "processing"}
                \/ ImageOf(w, s) \in stranded'
  <2>1. ASSUME QueueStep(v, t)
        PROVE  slot'[w][s] = slot[w][s] \/ (v = w /\ t = s /\ slot'[w][s].step # "ack")
    <3>1. CASE Q!BackoffEnds(v, t)
      BY <1>1, <3>1 DEF Q!BackoffEnds
    <3>2. CASE Q!DeadLetter(v, t)
      BY <1>1, <3>2 DEF Q!DeadLetter, Q!Goto
    <3>3. CASE Q!Ack(v, t) \/ Q!AckFails(v, t)
      BY <1>1, <3>3 DEF Q!Ack, Q!AckFails, Q!Free
    <3> QED BY <2>1, <3>1, <3>2, <3>3 DEF QueueStep
  <2>2. ASSUME NEW r, Q!AttemptEnds(v, t, r)
        PROVE  /\ slot[w][s].step = "attempt" /\ slot'[w][s].entry = slot[w][s].entry
               /\ v = w /\ t = s
               /\ r \notin {"transient", "permanent"}
    BY <1>1, <2>2 DEF Q!AttemptEnds, Q!At, Q!Goto, Q!AfterAttempt
  <2>3. slot[w][s].step # "free" =>
          slot[w][s].entry \in 1..Len(log) /\ ImageOf(w, s) \in Images
    BY <1>1, Calls DEF PInv, ImageOf
  <2>4. CASE Load(v, t)
    <3>1. \E r : Q!AttemptEnds(v, t, r)
      BY <1>2, <2>4 DEF Load, Return, Proceed, queue
    <3>2. row'[ImageOf(w, s)] = "ready"
      BY <1>2, <2>2, <2>4, <3>1 DEF Load, Return, Proceed, queue, rowVars
    <3> QED BY <2>2, <2>3, <3>1, <3>2
  <2>5. CASE Mark(v, t) \/ Process(v, t) \/ StoreThumbnail(v, t)
    BY <1>2, <2>2, <2>5 DEF Mark, Process, StoreThumbnail, Return, Proceed, queue
  <2>6. CASE Complete(v, t)
    <3>1. \E r : Q!AttemptEnds(v, t, r)
      BY <2>6 DEF Complete, Return
    <3>2. row'[ImageOf(w, s)] = "ready"
      BY <1>1, <2>2, <2>3, <2>6, <3>1 DEF Complete, Return, CompleteRow
    <3> QED BY <2>2, <2>3, <3>1, <3>2
  <2>7. CASE OnDeadLetter(v, t)
    <3>1. /\ slot[w][s].step = "hook" /\ slot'[w][s].entry = slot[w][s].entry
          /\ v = w /\ t = s
      BY <1>1, <2>7 DEF OnDeadLetter, Q!HookEnds, Q!At, Q!Goto
    <3>2. row'[ImageOf(w, s)] \in {"absent", "failed"} \/ ImageOf(w, s) \in stranded'
      BY <1>1, <2>3, <2>7, <3>1 DEF OnDeadLetter, SetStatus
    <3> QED BY <2>3, <3>1, <3>2
  <2> QED BY <1>4, <2>1, <2>4, <2>5, <2>6, <2>7 DEF HandleStep
<1> QED BY <1>2, <1>3, <1>4 DEF Next

\* The stream and the history only grow.
LEMMA LogGrows ==
  ASSUME [Next]_vars PROVE log' = log \/ \E j \in Images : log' = Append(log, j)
<1>1. ASSUME NEW i \in Images, UploadStep(i) \/ RequestCut(i) \/ DeleteStep(i)
      PROVE  log' = log \/ log' = Append(log, i)
  BY <1>1 DEF UploadStep, Store, ProcessTags, InsertRow, LinkTags, Enqueue, MarkUnqueued,
     RequestCut, DeleteStep, DeleteLoad, DeleteRow, CleanupStorage, queue, Q!Publish
<1>2. ASSUME NEW w \in Workers, LoopStep(w) \/ LoopFault(w) \/ Crash(w) PROVE log' = log
  BY <1>2 DEF LoopStep, LoopFault, Crash, Q!Start, Q!Drained, Q!Fetch, Q!Claim, Q!AutoClaim,
     Q!ReadNew, Q!ReadGroup, Q!Stop, Q!ClaimReplyLost, Q!ReadReplyLost, Q!Crash, Q!queueVars
<1>3. ASSUME NEW w \in Workers, NEW s \in Slots, HandleStep(w, s) PROVE log' = log
  BY <1>3 DEF HandleStep, Load, Mark, Process, StoreThumbnail, Complete, OnDeadLetter,
     QueueStep, Return, Proceed, queue, Q!queueVars, Q!AttemptEnds, Q!HookEnds, Q!BackoffEnds,
     Q!DeadLetter, Q!Ack, Q!AckFails
<1>4. ASSUME UNCHANGED vars \/ \E e \in 1..Len(log) : GoIdle(e) PROVE log' = log
  BY <1>4 DEF vars, queue, GoIdle, Q!GoIdle
<1> QED BY <1>1, <1>2, <1>3, <1>4 DEF Next

\* A row whose hook failed stays marked as such.
LEMMA StrandedGrows == ASSUME [Next]_vars PROVE stranded \subseteq stranded'
<1>1. ASSUME NEW i \in Images, UploadStep(i) \/ RequestCut(i) \/ DeleteStep(i)
      PROVE  stranded \subseteq stranded'
  BY <1>1 DEF UploadStep, Store, ProcessTags, InsertRow, LinkTags, Enqueue, MarkUnqueued,
     RequestCut, DeleteStep, DeleteLoad, DeleteRow, CleanupStorage
<1>2. ASSUME NEW w \in Workers, LoopStep(w) \/ LoopFault(w) \/ Crash(w)
      PROVE  stranded \subseteq stranded'
  BY <1>2 DEF LoopStep, LoopFault, Crash
<1>3. ASSUME NEW w \in Workers, NEW s \in Slots, HandleStep(w, s)
      PROVE  stranded \subseteq stranded'
  BY <1>3 DEF HandleStep, Load, Mark, Process, StoreThumbnail, Complete, OnDeadLetter, QueueStep
<1>4. ASSUME UNCHANGED vars \/ \E e \in 1..Len(log) : GoIdle(e)
      PROVE  stranded \subseteq stranded'
  BY <1>4 DEF vars, GoIdle
<1> QED BY <1>1, <1>2, <1>3, <1>4 DEF Next

\* The job a row waits for is not acknowledged before the row has settled.
LEMMA MovesKept ==
  ASSUME PInv, PInv', [Next]_vars, NEW i \in Images, NEW e \in 1..Len(log), Moves(e, i),
         Waiting(i)', i \notin stranded'
  PROVE  e \in 1..Len(log') /\ Moves(e, i)'
<1>1. /\ [QP!Next]_(QP!vars) /\ QP!IInv /\ QP!IInv'
      /\ log \in Seq(Images)
  BY QueueStepOrStutter, Calls DEF PInv
<1>2. Len(log') \in Nat /\ Len(log') >= Len(log) /\ log'[e] = i
  <2>1. log' = log \/ \E j \in Images : log' = Append(log, j)
    BY <1>1, LogGrows
  <2> QED BY <1>1, <2>1 DEF Moves
<1>3. CASE Len(log) - e >= MaxLen
  BY <1>1, <1>2, <1>3, QueueAssumption DEF Moves
<1>4. CASE e \in QP!Owed /\ ~Acking(e)
  <2>1. ~Acking(e)'
    <3> SUFFICES ASSUME NEW w \in Workers, NEW s \in Slots,
                        slot'[w][s].step = "ack", slot'[w][s].entry = e
                 PROVE  FALSE
      BY DEF Acking
    <3>1. slot'[w][s] # slot[w][s]
      BY <1>4 DEF Acking
    <3>2. slot[w][s].entry = e
      BY <3>1, ReachesAck
    <3>3. ImageOf(w, s) = i
      BY <3>2 DEF ImageOf, Moves
    <3> QED BY <3>1, <3>3, ReachesAck DEF Waiting
  <2>2. ~\E w \in Workers, s \in Slots : QP!Ack(w, s) /\ slot[w][s].entry = e
    BY <1>4 DEF Acking, QP!Ack, QP!At
  <2>3. e \in QP!Owed' \/ Len(log') - e >= MaxLen
    BY <1>1, <1>4, <2>2, QP!OwedStep, QueueAssumptions
  <2> QED BY <1>1, <1>2, <2>1, <2>3 DEF Moves
<1> QED BY <1>3, <1>4 DEF Moves

\* What makes a row wait: its upload ends, or a handle call marks it.
LEMMA StartsWaiting ==
  ASSUME PInv, [Next]_vars, NEW i \in Images, ~Waiting(i), Waiting(i)', i \notin stranded'
  PROVE  \/ Q!Publish(i)
         \/ \E w \in Workers, s \in Slots :
              slot[w][s].step = "attempt" /\ ImageOf(w, s) = i
<1>1. row \in [Images -> Statuses] /\ upload \in [Images -> {"new", "stored", "tagged",
        "inserted", "saved", "unqueued", "done", "failed", "compensated"}]
  BY DEF PInv, Types
<1>2. ASSUME UNCHANGED <<row, upload>> PROVE FALSE
  BY <1>2 DEF Waiting
<1>3. ASSUME NEW j \in Images, UploadStep(j) PROVE Q!Publish(i)
  <2>1. CASE Store(j) \/ LinkTags(j)
    BY <1>1, <2>1 DEF Store, LinkTags, Upload, rowVars, Waiting
  <2>2. CASE ProcessTags(j) \/ InsertRow(j)
    BY <1>1, <2>2 DEF ProcessTags, InsertRow, Inserted, Upload, rowVars, Waiting, PInv, Rows, Early
  <2>3. CASE Enqueue(j)
    BY <1>1, <2>3 DEF Enqueue, Upload, rowVars, Waiting
  <2>4. CASE MarkUnqueued(j)
    BY <1>1, <2>4 DEF MarkUnqueued, Upload, SetStatus, Waiting
  <2> QED BY <1>3, <2>1, <2>2, <2>3, <2>4 DEF UploadStep
<1>4. ASSUME NEW j \in Images, RequestCut(j) PROVE FALSE
  BY <1>1, <1>4 DEF RequestCut, rowVars, Waiting
<1>5. ASSUME NEW j \in Images, DeleteStep(j) PROVE FALSE
  BY <1>1, <1>5 DEF DeleteStep, DeleteLoad, DeleteRow, RemoveRow, CleanupStorage, rowVars, Waiting
<1>6. ASSUME NEW w \in Workers, NEW s \in Slots, HandleStep(w, s)
      PROVE  slot[w][s].step = "attempt" /\ ImageOf(w, s) = i
  <2>1. upload' = upload /\ row' # row
    BY <1>2, <1>6 DEF HandleStep, Load, Mark, Process, StoreThumbnail, Complete, OnDeadLetter,
                      QueueStep, webVars
  <2>2. CASE Mark(w, s)
    BY <1>1, <2>1, <2>2 DEF Mark, Waiting, SetStatus, AtStage, Q!At, Proceed
  <2>3. CASE Complete(w, s) \/ OnDeadLetter(w, s)
    BY <1>1, <2>1, <2>3 DEF Complete, OnDeadLetter, CompleteRow, SetStatus, rowVars, Waiting
  <2> QED BY <1>6, <2>1, <2>2, <2>3
          DEF HandleStep, Load, Process, StoreThumbnail, QueueStep, rowVars
<1>7. ASSUME \/ UNCHANGED vars
             \/ \E w \in Workers : LoopStep(w) \/ LoopFault(w) \/ Crash(w)
             \/ \E e \in 1..Len(log) : GoIdle(e)
      PROVE  FALSE
  BY <1>2, <1>7 DEF vars, rowVars, webVars, LoopStep, LoopFault, Crash, GoIdle
<1> QED BY <1>3, <1>4, <1>5, <1>6, <1>7 DEF Next

\* The call that marks a row holds a job that is owed, or expired.
LEMMA CallMoves ==
  ASSUME PInv, QP!Held, ~MayOverrun, NEW w \in Workers, NEW s \in Slots,
         slot[w][s].step = "attempt"
  PROVE  slot[w][s].entry \in 1..Len(log) /\ Moves(slot[w][s].entry, ImageOf(w, s))
<1> DEFINE e == slot[w][s].entry
<1>1. /\ e \in 1..Len(log) /\ log \in Seq(Images) /\ trimmed \in 0..Len(log)
      /\ e \in pel \/ e <= trimmed
  BY Calls DEF PInv, QP!Held, QP!Busy, QP!IInv, QP!TypeOK
<1>2. CASE e \in pel
  <2>1. ~Acking(e)
    BY DEF PInv, QP!IInv, QP!SoleHandler, QP!Busy, Acking
  <2> QED BY <1>1, <1>2, <2>1 DEF Moves, ImageOf, QP!Owed, QP!Entries
<1>3. CASE e <= trimmed
  BY <1>1, <1>3, QueueAssumption DEF PInv, QP!IInv, QP!Retention, Moves, ImageOf
<1> QED BY <1>1, <1>2, <1>3

\* A job just published is owed, and nobody holds it.
LEMMA PublishMoves ==
  ASSUME PInv, NEW i \in Images, Q!Publish(i)
  PROVE  Len(log') \in 1..Len(log') /\ Moves(Len(log), i)'
<1>1. /\ log \in Seq(Images) /\ Len(log) \in Nat /\ log' = Append(log, i)
      /\ trimmed \in 0..Len(log) /\ delivered \in 0..Len(log)
      /\ slot' = slot /\ delivered' = delivered
  BY Calls DEF PInv, QP!IInv, QP!TypeOK, Q!Publish, Q!workVars
<1>2. Len(log') = Len(log) + 1 /\ log'[Len(log')] = i
  BY <1>1
<1>3. trimmed' \in Nat /\ trimmed' < Len(log')
  BY <1>1, <1>2, QueueAssumption DEF Q!Publish
<1>4. Len(log') \in QP!Owed'
  BY <1>1, <1>2, <1>3 DEF QP!Owed, QP!Entries
<1>5. ~Acking(Len(log))'
  BY <1>1, <1>2, Calls DEF Acking, PInv
<1> QED BY <1>2, <1>4, <1>5 DEF Moves

\* Every step leaves a waiting row a job that will move it.
LEMMA AwaitedNext ==
  ASSUME PInv, PInv', QP!Held, Awaited, [Next]_vars PROVE Awaited'
<1> SUFFICES ASSUME ~MayOverrun, NEW i \in Images, Waiting(i)', i \notin stranded'
             PROVE  \E e \in 1..Len(log') : Moves(e, i)'
  BY DEF Awaited
<1>1. stranded \subseteq stranded'
  BY StrandedGrows
<1>2. CASE Waiting(i)
  <2>1. PICK e \in 1..Len(log) : Moves(e, i)
    BY <1>1, <1>2 DEF Awaited
  <2> QED BY <2>1, MovesKept
<1>3. CASE Q!Publish(i)
  BY <1>3, PublishMoves
<1>4. ASSUME NEW w \in Workers, NEW s \in Slots, slot[w][s].step = "attempt",
             ImageOf(w, s) = i
      PROVE  \E e \in 1..Len(log') : Moves(e, i)'
  <2>1. slot[w][s].entry \in 1..Len(log) /\ Moves(slot[w][s].entry, i)
    BY <1>4, CallMoves
  <2> QED BY <2>1, MovesKept
<1> QED BY <1>2, <1>3, <1>4, StartsWaiting

\* Nothing is left behind: a row that is still pending or processing after its
\* upload has a job that some worker is bound to handle, whatever crashes, lost
\* replies, failed operations, redeliveries and deletions came in between.
THEOREM NoRowIsStranded == Spec => []NoStrandedRow
<1>1. Init => QP!Held
  BY QueueInit, QP!HeldInit, QueueAssumptions
<1>2. PInv /\ QP!Held /\ [Next]_vars => QP!Held'
  BY QueueStepOrStutter, QP!HeldNext, QueueAssumptions DEF PInv
<1>3. Init => Awaited
  BY DEF Init, Awaited, Waiting
<1>4. PInv /\ PInv' /\ QP!Held /\ Awaited /\ [Next]_vars => Awaited'
  BY AwaitedNext
<1>5. PInv /\ Awaited => NoStrandedRow
  <2> SUFFICES ASSUME PInv, Awaited, ~MayOverrun, NEW i \in Images, Waiting(i), i \notin stranded
               PROVE  JobOwed(i) \/ JobExpired(i)
    BY DEF NoStrandedRow, Waiting
  <2>1. PICK e \in 1..Len(log) : Moves(e, i)
    BY DEF Awaited
  <2>2. QP!Owed = Q!Owed
    BY DEF QP!Owed, Q!Owed, QP!Entries, Q!Entries
  <2> QED BY <2>1, <2>2 DEF Moves, JobOwed, JobExpired, Published
<1> QED BY <1>1, <1>2, <1>3, <1>4, <1>5, PipelineInvariance, PTL DEF Spec

-----------------------------------------------------------------------------
(***************************************************************************)
(* A ready image is not processed again.  A call that is past the test of  *)
(* the status, about to mark its row, while the row is ready can only have *)
(* been overtaken by a call for another entry of the same image.           *)
(***************************************************************************)
Overtaken ==
  ~MayOverrun => \A w \in Workers, s \in Slots :
    stage[w][s] = "mark" /\ row[ImageOf(w, s)] = "ready" =>
      \E a, b \in Published(ImageOf(w, s)) : a # b

\* A call at "mark" was there before, or has just seen a row that is not ready.
LEMMA MarkKept ==
  ASSUME PInv, [Next]_vars, NEW w \in Workers, NEW s \in Slots, stage'[w][s] = "mark"
  PROVE  /\ slot[w][s].step = "attempt" /\ slot[w][s].entry \in 1..Len(log)
         /\ ImageOf(w, s)' = ImageOf(w, s) /\ ImageOf(w, s) \in Images
         /\ stage[w][s] = "mark" \/ (row' = row /\ row[ImageOf(w, s)] # "ready")
<1>1. /\ stage \in [Workers -> [Slots -> {"load", "mark", "process", "store", "complete"}]]
      /\ slot \in [Workers -> [Slots -> QP!HandleCalls]] /\ log \in Seq(Images)
  BY Calls DEF PInv, Types
<1>2. ASSUME stage[w][s] = "mark", slot'[w][s] = slot[w][s]
      PROVE  /\ slot[w][s].step = "attempt" /\ slot[w][s].entry \in 1..Len(log)
             /\ ImageOf(w, s)' = ImageOf(w, s) /\ ImageOf(w, s) \in Images
  <2>1. slot[w][s].step = "attempt"
    BY <1>2 DEF PInv, Staged
  <2>2. slot[w][s].entry \in 1..Len(log) /\ ImageOf(w, s) \in Images
    BY <2>1, Calls, ImageOfCall DEF PInv
  <2>3. log'[slot[w][s].entry] = log[slot[w][s].entry]
    <3>1. log' = log \/ \E j \in Images : log' = Append(log, j)
      BY LogGrows
    <3> QED BY <1>1, <2>2, <3>1
  <2> QED BY <1>2, <2>1, <2>2, <2>3 DEF ImageOf
<1>3. ASSUME \/ \E i \in Images : UploadStep(i) \/ RequestCut(i) \/ DeleteStep(i)
             \/ \E e \in 1..Len(log) : GoIdle(e)
             \/ UNCHANGED vars
      PROVE  stage' = stage /\ slot' = slot
  BY <1>3 DEF UploadStep, Store, ProcessTags, InsertRow, LinkTags, Enqueue, MarkUnqueued,
              RequestCut, DeleteStep, DeleteLoad, DeleteRow, CleanupStorage, queue,
              Q!Publish, Q!workVars, GoIdle, Q!GoIdle, vars
<1>4. ASSUME NEW v \in Workers, LoopStep(v) \/ LoopFault(v) \/ Crash(v)
      PROVE  stage[w][s] = "mark" /\ slot'[w][s] = slot[w][s]
  <2>1. CASE Crash(v)
    BY <1>1, <2>1 DEF Crash, Q!Crash
  <2>2. CASE Q!Fetch(v) /\ LoopStep(v)
    BY <2>2, QueueFetch, FetchKeepsAttempts DEF LoopStep, PInv, Staged
  <2>3. CASE ~Crash(v) /\ ~Q!Fetch(v)
    BY <1>4, <2>3 DEF LoopStep, LoopFault, Q!Start, Q!Drained, Q!Stop, Q!ClaimReplyLost,
       Q!ReadReplyLost, Q!workVars
  <2> QED BY <1>4, <2>1, <2>2, <2>3 DEF LoopFault, Q!Fetch, Q!Stop, Q!ClaimReplyLost,
       Q!ReadReplyLost, Q!workVars
<1>5. ASSUME NEW v \in Workers, NEW t \in Slots, HandleStep(v, t), v = w => t # s
      PROVE  stage[w][s] = "mark" /\ slot'[w][s] = slot[w][s]
  <2>1. CASE OnDeadLetter(v, t) \/ QueueStep(v, t)
    BY <1>1, <1>5, <2>1 DEF OnDeadLetter, QueueStep, Q!HookEnds, Q!BackoffEnds, Q!DeadLetter,
       Q!Ack, Q!AckFails, Q!Goto
  <2>2. CASE \E r : Return(v, t, r)
    BY <1>1, <1>5, <2>2 DEF Return, Q!AttemptEnds, Q!Goto
  <2>3. CASE \E to : Proceed(v, t, to)
    BY <1>1, <1>5, <2>3 DEF Proceed, queue
  <2> QED BY <1>5, <2>1, <2>2, <2>3
          DEF HandleStep, Load, Mark, Process, StoreThumbnail, Complete
<1>6. ASSUME HandleStep(w, s)
      PROVE  slot'[w][s] = slot[w][s] /\ log' = log /\ row' = row /\ slot[w][s].step = "attempt"
             /\ row[ImageOf(w, s)] # "ready" 
  <2>1. ASSUME NEW r, Return(w, s, r) PROVE FALSE
    BY <1>1, <2>1 DEF Return
  <2>2. ~OnDeadLetter(w, s) /\ ~QueueStep(w, s)
    BY DEF OnDeadLetter, QueueStep, Q!HookEnds, Q!BackoffEnds, Q!DeadLetter, Q!Ack, Q!AckFails,
       Q!At, PInv, Staged
  <2>3. Load(w, s) /\ Proceed(w, s, "mark")
    BY <1>1, <1>6, <2>1, <2>2
       DEF HandleStep, Load, Mark, Process, StoreThumbnail, Complete, Proceed
  <2> QED BY <2>1, <2>3 DEF Load, Proceed, queue, rowVars, AtStage, Q!At
<1>7. CASE HandleStep(w, s)
  <2>1. slot[w][s].entry \in 1..Len(log) /\ ImageOf(w, s) \in Images
    BY <1>6, <1>7, Calls, ImageOfCall DEF PInv
  <2> QED BY <1>6, <1>7, <2>1 DEF ImageOf
<1>8. CASE ~HandleStep(w, s)
  <2>1. stage[w][s] = "mark" /\ slot'[w][s] = slot[w][s]
    BY <1>3, <1>4, <1>5, <1>8 DEF Next
  <2> QED BY <1>2, <2>1
<1> QED BY <1>7, <1>8

\* A row becomes ready only at the end of a call for its image.
LEMMA BecomesReady ==
  ASSUME PInv, [Next]_vars, NEW i \in Images, row[i] # "ready", row'[i] = "ready"
  PROVE  \E w \in Workers, s \in Slots :
           /\ slot[w][s].step = "attempt" /\ ImageOf(w, s) = i /\ stage'[w][s] = "load"
           /\ log' = log
<1>1. /\ row \in [Images -> Statuses]
      /\ stage \in [Workers -> [Slots -> {"load", "mark", "process", "store", "complete"}]]
  BY DEF PInv, Types
<1>2. ASSUME NEW j \in Images, UploadStep(j) \/ RequestCut(j) \/ DeleteStep(j) PROVE FALSE
  BY <1>1, <1>2 DEF UploadStep, Store, ProcessTags, InsertRow, LinkTags, Enqueue, MarkUnqueued,
     SetStatus, Inserted, RemoveRow, RequestCut, DeleteStep, DeleteLoad, DeleteRow,
     CleanupStorage, rowVars
<1>3. ASSUME NEW w \in Workers, NEW s \in Slots, HandleStep(w, s)
      PROVE  /\ slot[w][s].step = "attempt" /\ ImageOf(w, s) = i /\ stage'[w][s] = "load"
             /\ log' = log
  <2>1. CASE Complete(w, s)
    BY <1>1, <2>1 DEF Complete, CompleteRow, rowVars, Return, Q!AttemptEnds, Q!queueVars,
                      AtStage, Q!At
  <2>2. CASE ~Complete(w, s)
    BY <1>1, <1>3, <2>2 DEF HandleStep, Load, Mark, Process, StoreThumbnail, OnDeadLetter,
       QueueStep, SetStatus, rowVars
  <2> QED BY <2>1, <2>2
<1>4. ASSUME \/ UNCHANGED vars
             \/ \E w \in Workers : LoopStep(w) \/ LoopFault(w) \/ Crash(w)
             \/ \E e \in 1..Len(log) : GoIdle(e)
      PROVE  FALSE
  BY <1>4 DEF vars, rowVars, LoopStep, LoopFault, Crash, GoIdle
<1> QED BY <1>2, <1>3, <1>4 DEF Next

\* A ready row goes back to processing only in Mark.
LEMMA MarksReady ==
  ASSUME PInv, [Next]_vars, NEW i \in Images, row[i] = "ready", row'[i] = "processing"
  PROVE  \E w \in Workers, s \in Slots : stage[w][s] = "mark" /\ ImageOf(w, s) = i
<1>1. row \in [Images -> Statuses]
  BY DEF PInv, Types
<1>2. ASSUME NEW j \in Images, UploadStep(j) \/ RequestCut(j) \/ DeleteStep(j) PROVE FALSE
  BY <1>1, <1>2 DEF UploadStep, Store, ProcessTags, InsertRow, LinkTags, Enqueue, MarkUnqueued,
     SetStatus, Inserted, RemoveRow, RequestCut, DeleteStep, DeleteLoad, DeleteRow,
     CleanupStorage, rowVars
<1>3. ASSUME NEW w \in Workers, NEW s \in Slots, HandleStep(w, s)
      PROVE  stage[w][s] = "mark" /\ ImageOf(w, s) = i
  <2>1. CASE Mark(w, s)
    BY <1>1, <2>1 DEF Mark, SetStatus, AtStage
  <2>2. CASE ~Mark(w, s)
    BY <1>1, <1>3, <2>2 DEF HandleStep, Load, Process, StoreThumbnail, Complete, CompleteRow,
       OnDeadLetter, QueueStep, SetStatus, rowVars
  <2> QED BY <2>1, <2>2
<1>4. ASSUME \/ UNCHANGED vars
             \/ \E w \in Workers : LoopStep(w) \/ LoopFault(w) \/ Crash(w)
             \/ \E e \in 1..Len(log) : GoIdle(e)
      PROVE  FALSE
  BY <1>4 DEF vars, rowVars, LoopStep, LoopFault, Crash, GoIdle
<1> QED BY <1>2, <1>3, <1>4 DEF Next

\* Every step keeps the reason for which a call marks a ready row.
LEMMA OvertakenNext == ASSUME PInv, Overtaken, [Next]_vars PROVE Overtaken'
<1> SUFFICES ASSUME ~MayOverrun, NEW w \in Workers, NEW s \in Slots, stage'[w][s] = "mark",
                    row'[ImageOf(w, s)'] = "ready"
             PROVE  \E a, b \in Published(ImageOf(w, s))' : a # b
  BY DEF Overtaken
<1> DEFINE i == ImageOf(w, s)
<1>1. /\ slot[w][s].step = "attempt" /\ slot[w][s].entry \in 1..Len(log)
      /\ ImageOf(w, s)' = i /\ i \in Images
      /\ stage[w][s] = "mark" \/ (row' = row /\ row[i] # "ready")
  BY MarkKept
<1>2. \A j : Published(j) \subseteq Published(j)'
  <2>1. log \in Seq(Images)
    BY Calls DEF PInv
  <2> QED BY <2>1, LogGrows DEF Published
<1>3. CASE row[i] = "ready"
  <2>1. \E a, b \in Published(i) : a # b
    BY <1>1, <1>3 DEF Overtaken
  <2> QED BY <1>1, <1>2, <2>1
<1>4. CASE row[i] # "ready"
  <2>1. PICK v \in Workers, t \in Slots :
          slot[v][t].step = "attempt" /\ ImageOf(v, t) = i /\ stage'[v][t] = "load"
    BY <1>1, <1>4, BecomesReady
  <2>2. slot[v][t].entry # slot[w][s].entry
    BY <1>1, <2>1 DEF PInv, QP!IInv, QP!SoleHandler, QP!Busy
  <2>3. slot[v][t].entry \in Published(i) /\ slot[w][s].entry \in Published(i)
    BY <1>1, <2>1, Calls DEF PInv, Published, ImageOf
  <2> QED BY <1>1, <1>2, <2>2, <2>3
<1> QED BY <1>3, <1>4

\* Two entries of an image are more than one.
LEMMA TwoPublished ==
  ASSUME PInv, NEW i, NEW a \in Published(i), NEW b \in Published(i), a # b
  PROVE  Cardinality(Published(i)) > 1
<1>1. IsFiniteSet(Published(i))
  <2>1. Len(log) \in Nat
    BY Calls DEF PInv
  <2>2. IsFiniteSet(1..Len(log))
    BY <2>1, FS_Interval
  <2> QED BY <2>2, FS_Subset DEF Published
<1>2. Cardinality({a, b}) = 2 /\ IsFiniteSet({a, b})
  <2>1. Cardinality({a}) = 1 /\ IsFiniteSet({a})
    BY FS_Singleton
  <2>2. {a, b} = {a} \cup {b} /\ b \notin {a}
    OBVIOUS
  <2> QED BY <2>1, <2>2, FS_AddElement
<1>3. Cardinality({a, b}) <= Cardinality(Published(i))
  BY <1>1, FS_Subset
<1>4. Cardinality(Published(i)) \in Nat
  BY <1>1, FS_CardinalityType
<1> QED BY <1>2, <1>3, <1>4

\* "A ready image is skipped": it is marked processing again only when it was
\* published more than once, however often its entry is redelivered.
THEOREM ReadyImagesAreSkipped == Spec => ReadyIsSkipped
<1>1. Init => Overtaken
  BY DEF Init, AllLoad, Overtaken
<1>2. PInv /\ Overtaken /\ [Next]_vars => Overtaken'
  BY OvertakenNext
<1>3. PInv /\ Overtaken /\ [Next]_vars =>
        [~MayOverrun => \A i \in Images : row[i] = "ready" /\ row'[i] = "processing" =>
                          Cardinality(Published(i)) > 1]_vars
  <2> SUFFICES ASSUME PInv, Overtaken, [Next]_vars, ~MayOverrun,
                      NEW i \in Images, row[i] = "ready", row'[i] = "processing"
               PROVE  Cardinality(Published(i)) > 1
    OBVIOUS
  <2>1. PICK w \in Workers, s \in Slots : stage[w][s] = "mark" /\ ImageOf(w, s) = i
    BY MarksReady
  <2> QED BY <2>1, TwoPublished DEF Overtaken
<1> QED BY <1>1, <1>2, <1>3, PipelineInvariance, PTL DEF Spec, ReadyIsSkipped

=============================================================================
