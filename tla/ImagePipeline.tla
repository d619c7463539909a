--------------------------- MODULE ImagePipeline ---------------------------
(***************************************************************************)
(* The life of an image: the web role uploads and deletes it, the worker   *)
(* role turns it into a thumbnail.  Three stores are involved and no       *)
(* transaction spans two of them: the images table, the object store and   *)
(* the job queue (module JobQueue, whose handler is Processor.Handle and   *)
(* whose dead-letter hook is Processor.OnDeadLetter).                      *)
(*                                                                         *)
(* An element of Images is one upload: its row, its original object, its   *)
(* thumbnail object and its job.  Row ids and object keys are never reused.*)
(***************************************************************************)
EXTENDS Thumbnail, Sequences, FiniteSets

CONSTANTS
  Images,
  Content,      \* their bytes
  Workers, Slots, MaxAttempts, MaxLen, MayOverrun, MaxJobs, MaxFaults, MaxStops,
  Fallible,     \* the operations that may fail in this instance
  MaxUploads,   \* bound: images uploaded
  MaxErrors,    \* bound: operations that do fail
  MaxFailures   \* bound: operations that fail, crashes and lost replies together

Operations ==
  {"tags", "insert", "link", "cleanup",               \* CreateImage
   "enqueue", "enqueueReply",                         \* XADD not done; done, reply lost
   "markUnqueued", "request",                         \* its last resort; its context
   "load", "mark", "process", "store", "complete",    \* Handle
   "hook",                                            \* OnDeadLetter
   "deleteRow", "deleteObject"}                       \* DeleteImage

ASSUME ContentAssumption == Content \in [Images -> Bytes]
ASSUME FallibleAssumption == Fallible \subseteq Operations
ASSUME QueueAssumption ==
  /\ MaxAttempts \in Nat \ {0} /\ MaxLen \in Nat \ {0} /\ MayOverrun \in BOOLEAN
  /\ IsFiniteSet(Slots) /\ MaxJobs \in Nat /\ MaxFaults \in Nat /\ MaxStops \in Nat
ASSUME ErrorsAssumption == MaxUploads \in Nat /\ MaxErrors \in Nat /\ MaxFailures \in Nat

VARIABLES
  log, trimmed, group, delivered, pel, idle,          \* the queue: see JobQueue
  loop, slot, finished, settled, dead, faults, stops,
  row,         \* status of the row in images, "absent" when there is none
  hasThumb,    \* rows whose thumbnail_path is set
  originals,   \* original objects in the store
  thumbnails,  \* thumbnail objects in the store
  upload,      \* how far CreateImage is
  deletion,    \* how far DeleteImage is
  stage,       \* per handle call: the step of Handle its attempt is at
  stranded,    \* history: images whose upload was cut, or failed with the row in, or
               \* whose last status write failed
  errors       \* failed operations so far

Q == INSTANCE JobQueue WITH Jobs <- Images, Malformed <- {}

queue == <<log, trimmed, group, delivered, pel, idle,
           loop, slot, finished, settled, dead, faults, stops>>
rowVars == <<row, hasThumb>>
objectVars == <<originals, thumbnails>>
webVars == <<upload, deletion>>
vars == <<queue, rowVars, objectVars, webVars, stage, stranded, errors>>

-----------------------------------------------------------------------------
AllLoad == [w \in Workers |-> [s \in Slots |-> "load"]]

Init ==
  /\ Q!Init
  /\ row = [i \in Images |-> "absent"] /\ hasThumb = {}
  /\ originals = {} /\ thumbnails = {}
  /\ upload = [i \in Images |-> "new"]
  /\ deletion = [i \in Images |-> "no"]
  /\ stage = AllLoad
  /\ stranded = {} /\ errors = 0

\* A failed call may have had its effect: what failed can be its reply alone.
MayFail == errors + faults < MaxFailures
Fails(op) == op \in Fallible /\ errors < MaxErrors /\ MayFail /\ errors' = errors + 1
Works == UNCHANGED errors

-----------------------------------------------------------------------------
(* CreateImage, step by step; each step is one call to another store. *)

Upload(i, from, to) == upload[i] = from /\ upload' = [upload EXCEPT ![i] = to]

Store(i) ==
  /\ Cardinality({j \in Images : upload[j] # "new"}) < MaxUploads
  /\ Upload(i, "new", "stored")
  /\ originals' = originals \cup {i}
  /\ Works
  /\ UNCHANGED <<queue, rowVars, thumbnails, deletion, stage, stranded>>

\* An error here, as from two uploads creating one tag, leaves the object.
ProcessTags(i) ==
  /\ \/ Upload(i, "stored", "tagged") /\ Works
     \/ Upload(i, "stored", "failed") /\ Fails("tags")
  /\ UNCHANGED <<queue, rowVars, objectVars, deletion, stage, stranded>>

\* saveImageToDatabase answers an error of Create by deleting the object,
\* and ignores an error of that.
DropObject(i) ==
  \/ originals' = originals \ {i}
  \/ "cleanup" \in Fallible /\ UNCHANGED originals

\* buildImageObject: a new row is pending.
Inserted(i) == [row EXCEPT ![i] = "pending"]

\* An INSERT whose reply is lost, or whose request is cut meanwhile, is an error
\* too: the object goes, the row stays, and no job is published for it.
InsertRow(i) ==
  /\ \/ /\ Upload(i, "tagged", "inserted") /\ Works
        /\ row' = Inserted(i) /\ UNCHANGED <<originals, stranded>>
     \/ /\ Upload(i, "tagged", "compensated") /\ Fails("insert") /\ DropObject(i)
        /\ \/ UNCHANGED <<row, stranded>>
           \/ row' = Inserted(i) /\ stranded' = stranded \cup {i}
  /\ UNCHANGED <<queue, hasThumb, thumbnails, deletion, stage>>

\* The second half of Create: the row is in, linking one of its tags may fail.
LinkTags(i) ==
  /\ \/ Upload(i, "inserted", "saved") /\ Works /\ UNCHANGED <<originals, stranded>>
     \/ /\ Upload(i, "inserted", "compensated") /\ Fails("link")
        /\ DropObject(i) /\ stranded' = stranded \cup {i}
  /\ UNCHANGED <<queue, rowVars, thumbnails, deletion, stage>>

\* Mutated form: the error of the XADD is not looked at.
EnqueueIgnoresError(i) ==
  /\ \/ Upload(i, "saved", "done") /\ Works /\ Q!Publish(i)
     \/ Upload(i, "saved", "done") /\ Fails("enqueue") /\ UNCHANGED queue
  /\ UNCHANGED <<rowVars, objectVars, deletion, stage, stranded>>

\* enqueueProcessing: the XADD.  When the reply is lost the client library runs
\* it again (MaxRetries), in the end with an error.
Enqueue(i) ==
  /\ \/ Upload(i, "saved", "done") /\ Works /\ Q!Publish(i)
     \/ Upload(i, "saved", "unqueued") /\ Fails("enqueue") /\ UNCHANGED queue
     \/ /\ Upload(i, "saved", "saved") \/ Upload(i, "saved", "unqueued")
        /\ Fails("enqueueReply") /\ Q!Publish(i)
  /\ UNCHANGED <<rowVars, objectVars, deletion, stage, stranded>>

\* UPDATE images SET status: not found when the row is gone.
SetStatus(i, status) ==
  row' = IF row[i] = "absent" THEN row ELSE [row EXCEPT ![i] = status]

\* enqueueProcessing: what it does about a failed XADD.
MarkUnqueued(i) ==
  /\ Upload(i, "unqueued", "done")
  /\ \/ Works /\ SetStatus(i, "failed") /\ UNCHANGED stranded
     \/ /\ Fails("markUnqueued") /\ stranded' = stranded \cup {i}
        /\ UNCHANGED row \/ SetStatus(i, "failed")
  /\ UNCHANGED <<queue, hasThumb, objectVars, deletion, stage>>

\* The client goes away or the web process dies: every later call of the
\* request, cleanup included, runs on a canceled context.
RequestCut(i) ==
  /\ upload[i] \notin {"new", "done", "failed", "compensated"}
  /\ upload' = [upload EXCEPT ![i] = "failed"]
  /\ Fails("request")
  /\ stranded' = stranded \cup {i}
  /\ UNCHANGED <<queue, rowVars, objectVars, deletion, stage>>

UploadStep(i) ==
  \/ Store(i) \/ ProcessTags(i) \/ InsertRow(i) \/ LinkTags(i)
  \/ Enqueue(i) \/ MarkUnqueued(i)

-----------------------------------------------------------------------------
(* DeleteImage. *)

Delete(i, from, to) == deletion[i] = from /\ deletion' = [deletion EXCEPT ![i] = to]

DeleteLoad(i) ==
  /\ row[i] # "absent"
  /\ Delete(i, "no", "loaded")
  /\ Works
  /\ UNCHANGED <<queue, rowVars, objectVars, upload, stage, stranded>>

RemoveRow(i) == row' = [row EXCEPT ![i] = "absent"] /\ hasThumb' = hasThumb \ {i}

\* An error ends the request, its object left behind even if the row is gone.
DeleteRow(i) ==
  /\ \/ Delete(i, "loaded", "rowGone") /\ Works /\ RemoveRow(i)
     \/ /\ Delete(i, "loaded", "no") /\ Fails("deleteRow")
        /\ UNCHANGED rowVars \/ RemoveRow(i)
  /\ UNCHANGED <<queue, objectVars, upload, stage, stranded>>

\* cleanupStorage: the storage path of the row, its error ignored.
CleanupStorage(i) ==
  /\ Delete(i, "rowGone", "done")
  /\ \/ Works /\ originals' = originals \ {i}
     \/ Fails("deleteObject") /\ UNCHANGED originals
  /\ UNCHANGED <<queue, rowVars, thumbnails, upload, stage, stranded>>

DeleteStep(i) == DeleteLoad(i) \/ DeleteRow(i) \/ CleanupStorage(i)

-----------------------------------------------------------------------------
(* Processor.Handle, one action per call it makes to another store. *)

ImageOf(w, s) == log[slot[w][s].entry]

AtStage(w, s, st) == Q!At(w, s, "attempt") /\ stage[w][s] = st

Proceed(w, s, to) == stage' = [stage EXCEPT ![w][s] = to] /\ UNCHANGED queue

\* Handle returns to attempts.
Return(w, s, result) ==
  /\ Q!AttemptEnds(w, s, result)
  /\ stage' = [stage EXCEPT ![w][s] = "load"]

\* Mutated form: a ready image is not skipped.
LoadNoSkip(w, s) ==
  LET i == ImageOf(w, s) IN
  /\ AtStage(w, s, "load")
  /\ \/ Fails("load") /\ Return(w, s, "transient")
     \/ Works /\ row[i] = "absent" /\ Return(w, s, "transient")
     \/ Works /\ row[i] # "absent" /\ Proceed(w, s, "mark")
  /\ UNCHANGED <<rowVars, objectVars, webVars, stranded>>

\* GetByID, and the test of the status it read.
Load(w, s) ==
  LET i == ImageOf(w, s) IN
  /\ AtStage(w, s, "load")
  /\ \/ Fails("load") /\ Return(w, s, "transient")
     \/ Works /\ row[i] = "absent" /\ Return(w, s, "transient")
     \/ Works /\ row[i] = "ready" /\ Return(w, s, "skip")
     \/ Works /\ row[i] \in {"pending", "processing", "failed"} /\ Proceed(w, s, "mark")
  /\ UNCHANGED <<rowVars, objectVars, webVars, stranded>>

Mark(w, s) ==
  LET i == ImageOf(w, s) IN
  /\ AtStage(w, s, "mark")
  /\ \/ /\ Fails("mark") /\ Return(w, s, "transient")
        /\ UNCHANGED row \/ SetStatus(i, "processing")
     \/ Works /\ row[i] = "absent" /\ Return(w, s, "transient") /\ UNCHANGED row
     \/ Works /\ row[i] # "absent" /\ SetStatus(i, "processing") /\ Proceed(w, s, "process")
  /\ UNCHANGED <<hasThumb, objectVars, webVars, stranded>>

\* The injected fault, then fetch, decode and thumbnail, which write nothing.
Process(w, s) ==
  LET i == ImageOf(w, s) IN
  /\ AtStage(w, s, "process")
  /\ \/ Fails("process") /\ Return(w, s, "transient")
     \/ Works /\ i \notin originals /\ Return(w, s, "transient")
     \/ Works /\ i \in originals /\ MayReject(Content[i]) /\ Return(w, s, "permanent")
     \/ Works /\ i \in originals /\ MayRender(Content[i]) /\ Proceed(w, s, "store")
  /\ UNCHANGED <<rowVars, objectVars, webVars, stranded>>

\* Mutated form: an error of StoreAt is ignored.
StoreThumbnailIgnoresError(w, s) ==
  /\ AtStage(w, s, "store")
  /\ Proceed(w, s, "complete")
  /\ \/ Fails("store") /\ UNCHANGED thumbnails
     \/ Works /\ thumbnails' = thumbnails \cup {ImageOf(w, s)}
  /\ UNCHANGED <<rowVars, originals, webVars, stranded>>

StoreThumbnail(w, s) ==
  LET stored == thumbnails' = thumbnails \cup {ImageOf(w, s)} IN
  /\ AtStage(w, s, "store")
  /\ \/ Fails("store") /\ Return(w, s, "transient") /\ (UNCHANGED thumbnails \/ stored)
     \/ Works /\ Proceed(w, s, "complete") /\ stored
  /\ UNCHANGED <<rowVars, originals, webVars, stranded>>

\* CompleteProcessing sets the status and the thumbnail path in one UPDATE.
CompleteRow(i) ==
  /\ row' = [row EXCEPT ![i] = "ready"]
  /\ hasThumb' = hasThumb \cup {i}

Complete(w, s) ==
  LET i == ImageOf(w, s) IN
  /\ AtStage(w, s, "complete")
  /\ \/ Works /\ row[i] # "absent" /\ CompleteRow(i) /\ Return(w, s, "ok")
     \/ Works /\ row[i] = "absent" /\ Return(w, s, "transient") /\ UNCHANGED rowVars
     \/ /\ Fails("complete") /\ Return(w, s, "transient")
        /\ UNCHANGED rowVars \/ (row[i] # "absent" /\ CompleteRow(i))
  /\ UNCHANGED <<objectVars, webVars, stranded>>

\* Mutated form: the hook only logs.
OnDeadLetterOnlyLogs(w, s) ==
  /\ Q!HookEnds(w, s) /\ Works
  /\ UNCHANGED <<rowVars, objectVars, webVars, stage, stranded>>

\* OnDeadLetter: the error of its UPDATE, or its timeout, is only recorded.
OnDeadLetter(w, s) ==
  LET i == ImageOf(w, s) IN
  /\ Q!HookEnds(w, s)
  /\ \/ Works /\ SetStatus(i, "failed") /\ UNCHANGED stranded
     \/ /\ Fails("hook") /\ stranded' = stranded \cup {i}
        /\ UNCHANGED row \/ SetStatus(i, "failed")
  /\ UNCHANGED <<hasThumb, objectVars, webVars, stage>>

\* Steps of a handle call outside the handler and the hook.
QueueStep(w, s) ==
  /\ \/ Q!BackoffEnds(w, s) \/ Q!DeadLetter(w, s) \/ Q!Ack(w, s)
     \/ MayFail /\ Q!AckFails(w, s)
  /\ UNCHANGED <<rowVars, objectVars, webVars, stage, stranded, errors>>

HandleStep(w, s) ==
  \/ Load(w, s) \/ Mark(w, s) \/ Process(w, s) \/ StoreThumbnail(w, s)
  \/ Complete(w, s) \/ OnDeadLetter(w, s) \/ QueueStep(w, s)

-----------------------------------------------------------------------------
\* The read loop of a worker process: its progress, and what befalls it.
LoopStep(w) ==
  /\ Q!Start(w) \/ Q!Drained(w) \/ Q!Fetch(w)
  /\ UNCHANGED <<rowVars, objectVars, webVars, stage, stranded, errors>>

LoopFault(w) ==
  /\ Q!Stop(w) \/ (MayFail /\ (Q!ClaimReplyLost(w) \/ Q!ReadReplyLost(w)))
  /\ UNCHANGED <<rowVars, objectVars, webVars, stage, stranded, errors>>

Crash(w) ==
  /\ MayFail /\ Q!Crash(w)
  /\ stage' = [stage EXCEPT ![w] = [s \in Slots |-> "load"]]
  /\ UNCHANGED <<rowVars, objectVars, webVars, stranded, errors>>

GoIdle(e) ==
  /\ Q!GoIdle(e)
  /\ UNCHANGED <<rowVars, objectVars, webVars, stage, stranded, errors>>

Next ==
  \/ \E i \in Images : UploadStep(i) \/ RequestCut(i) \/ DeleteStep(i)
  \/ \E w \in Workers : LoopStep(w) \/ LoopFault(w) \/ Crash(w) \/ \E s \in Slots : HandleStep(w, s)
  \/ \E e \in 1..Len(log) : GoIdle(e)

Spec == Init /\ [][Next]_vars

\* Requests in progress and handle calls go on, workers are restarted and keep
\* reading, idle clocks advance.  Nobody has to start an upload or a deletion.
Fairness ==
  /\ WF_vars(\E i \in Images : upload[i] # "new" /\ UploadStep(i))
  /\ WF_vars(\E i \in Images : DeleteRow(i) \/ CleanupStorage(i))
  /\ \A w \in Workers :
       /\ WF_vars(LoopStep(w))
       /\ \A s \in Slots : WF_vars(HandleStep(w, s))
  /\ WF_vars(\E e \in 1..Len(log) : GoIdle(e))

FairSpec == Spec /\ Fairness

-----------------------------------------------------------------------------
TypeOK ==
  /\ Q!TypeOK
  /\ row \in [Images -> {"absent", "pending", "processing", "ready", "failed"}]
  /\ hasThumb \subseteq {i \in Images : row[i] # "absent"}
  /\ originals \subseteq Images /\ thumbnails \subseteq Images
  /\ upload \in [Images -> {"new", "stored", "tagged", "inserted", "saved",
                            "unqueued", "done", "failed", "compensated"}]
  /\ deletion \in [Images -> {"no", "loaded", "rowGone", "done"}]
  /\ stage \in [Workers -> [Slots -> {"load", "mark", "process", "store", "complete"}]]
  /\ stranded \subseteq Images /\ errors \in 0..MaxErrors

(***************************************************************************)
(* "The database never claims an object exists before it does"             *)
(* (ARCHITECTURE.md): whatever a row points to, the original always and    *)
(* the thumbnail once its path is set, is in the store, and a ready image  *)
(* has its thumbnail.  The one exception is the upload that answers an     *)
(* error of Create by deleting the object, though the row was inserted:    *)
(* a tag could not be linked, or the reply of the INSERT was lost.         *)
(***************************************************************************)
RowsPointToObjects ==
  \A i \in Images :
    /\ row[i] # "absent" => i \in originals \/ upload[i] = "compensated"
    /\ i \in hasThumb => i \in thumbnails
    /\ row[i] = "ready" => i \in hasThumb

\* The same without the exception, for the original.
RowsHaveTheirOriginal == \A i \in Images : row[i] # "absent" => i \in originals

(***************************************************************************)
(* "GenerateThumbnail ... maintaining aspect ratio ... Don't upscale       *)
(* images": whatever bytes a stored thumbnail was made of, it is inside    *)
(* the box, no larger than the original and has its shape.  It is only     *)
(* ever empty, a file no browser shows behind a row that is ready, when    *)
(* the original is extremely long and not a PNG.                           *)
(***************************************************************************)
ThumbnailsShowTheirImage ==
  \A i \in thumbnails :
    LET b == Content[i]
    IN  /\ b.width * b.height <= maxPixels
        /\ \A d \in ThumbnailSizes(b) :
             /\ InBox(d, thumbSize, thumbSize)
             /\ NotUpscaled(d, b.width, b.height)
             /\ Undistorted(d, b.width, b.height)
             /\ Empty(d) => Elongated(b.width, b.height, thumbSize, thumbSize)
        /\ b.format = "png" => \E d \in ThumbnailSizes(b) : ~Empty(d)

Published(i) == {e \in 1..Len(log) : log[e] = i}

\* Image i still has a job that some worker is bound to handle, or one so old
\* that the stream may have trimmed it.
JobOwed(i) == \E e \in Q!Owed : log[e] = i
JobExpired(i) == \E e \in Published(i) : Len(log) - e >= MaxLen

(***************************************************************************)
(* "Nothing rescans pending rows" (enqueueProcessing), so a row that is    *)
(* still pending or processing after its upload must have a job to move    *)
(* it, unless the upload was cut or failed with its row in, the write that *)
(* should have marked it failed was lost, or the queue outgrew its         *)
(* retention.  Crashes of workers, lost replies, other failed calls,       *)
(* failed acks and deletions do not strand a row; a handle call that       *)
(* outlives claimIdle could, when its entry is acknowledged by the one     *)
(* that reclaimed it.                                                      *)
(***************************************************************************)
NoStrandedRow ==
  ~MayOverrun =>
    \A i \in Images :
      /\ upload[i] \in {"done", "failed", "compensated"}
      /\ row[i] \in {"pending", "processing"}
      => JobOwed(i) \/ JobExpired(i) \/ i \in stranded

(***************************************************************************)
(* "Processing is idempotent by image ID ... a ready image is skipped"     *)
(* (Processor): however often its entry is redelivered, an image that is   *)
(* ready is not processed again, as long as it was published once and      *)
(* handle calls stay below claimIdle.                                      *)
(***************************************************************************)
ReadyIsSkipped ==
  [][~MayOverrun =>
       \A i \in Images :
         row[i] = "ready" /\ row'[i] = "processing" => Cardinality(Published(i)) > 1]_vars

(***************************************************************************)
(* "UpdateStatus moves an image through pending -> processing ->           *)
(* ready|failed" (imageRepository): a ready image stays ready until it is  *)
(* deleted.  The code does not keep this, see README, section 3.           *)
(***************************************************************************)
ReadyIsFinal ==
  [][\A i \in Images : row[i] = "ready" => row'[i] \in {"ready", "absent"}]_row

(***************************************************************************)
(* Every image that enters the pipeline leaves it: its row becomes ready   *)
(* or failed, or is deleted, unless its upload was cut or failed with the  *)
(* row in, or a status write was lost for good.                            *)
(***************************************************************************)
ImagesResolve ==
  \A i \in Images :
    row[i] = "pending" ~> (row[i] \in {"ready", "failed", "absent"} \/ i \in stranded)

=============================================================================
