------------------------------- MODULE Upload -------------------------------
(***************************************************************************)
(* Uploads of several files with tags: uploadImagesHandler and, for each   *)
(* file in turn, ImageService.CreateImage, down to the tags table, the     *)
(* object store, the images table and the publish.  Concurrent requests    *)
(* share the tags.  A client may disconnect: every later call of its       *)
(* request then fails, the cleanup of an object included.                  *)
(*                                                                         *)
(* A key <<r, i>> is the i-th file of request r: its object and its row.   *)
(* ImagePipeline takes over where the job of a row is published.           *)
(***************************************************************************)
EXTENDS UploadRules

CONSTANTS
  Requests,
  Forms,      \* what clients send: records [bytes, files, tags]
  Known,      \* names of the tags that exist from the start
  MaxFiles,   \* the most files of a form
  MaxErrors   \* bound: failed calls and clients that disconnect

ASSUME UploadAssumption ==
  /\ MaxErrors \in Nat /\ MaxFiles \in Nat
  /\ \A f \in Forms :
       /\ f.bytes \in Nat
       /\ f.files \in Seq(Files) /\ Len(f.files) <= MaxFiles
       /\ f.tags \in Seq(TagTexts)

VARIABLES
  tags,      \* names in the tags table
  row,       \* status of the image's row by key, "none" without one
  links,     \* names of the tags linked to it
  objects,   \* keys in the store
  jobs,      \* keys published
  hasQueue,  \* whether this process found Valkey when it started
  req,       \* per request: where its handler is and what it has collected
  cut,       \* requests whose client has gone
  errors     \* failed calls so far

stores == <<tags, row, links, objects, jobs>>
vars == <<stores, hasQueue, req, cut, errors>>

Keys == {<<r, i>> : r \in Requests, i \in 1..MaxFiles}
NoForm == [bytes |-> 0, files |-> <<>>, tags |-> <<>>]
Idle == [step |-> "idle", form |-> NoForm, tags |-> <<>>, at |-> 1, tag |-> 1,
         images |-> {}, failed |-> {}, status |-> 0]

Init ==
  /\ tags = Known
  /\ row = [k \in Keys |-> "none"] /\ links = [k \in Keys |-> {}]
  /\ objects = {} /\ jobs = {}
  /\ hasQueue \in BOOLEAN
  /\ req = [r \in Requests |-> Idle]
  /\ cut = {} /\ errors = 0

-----------------------------------------------------------------------------
(* A call on the context of request r works, or it fails. *)

Works(r) == r \notin cut /\ UNCHANGED errors
MayFail == errors + Cardinality(cut) < MaxErrors
Fails(r) ==
  \/ r \in cut /\ UNCHANGED errors
  \/ r \notin cut /\ MayFail /\ errors' = errors + 1

At(r, step) == req[r].step = step
Goto(r, step) == req' = [req EXCEPT ![r].step = step]

Key(r) == <<r, req[r].at>>
File(r) == req[r].form.files[req[r].at]
Tags(r) == req[r].tags
Tag(r) == Tags(r)[req[r].tag]
Request(r) == CreateRequest(File(r), Tags(r))

\* The file at hand is done with; uploadImagesHandler takes the next one.
Record(r, list) ==
  req' = [req EXCEPT ![r].images = IF list = "images" THEN @ \cup {req[r].at} ELSE @,
                     ![r].failed = IF list = "errors" THEN @ \cup {req[r].at} ELSE @,
                     ![r].at = @ + 1, ![r].tag = 1, ![r].step = "file"]

\* 201 when all files were stored, 207 when some were, 400 when none was.
Status(q) ==
  IF q.images = {} THEN 400 ELSE IF q.failed # {} THEN 207 ELSE 201

-----------------------------------------------------------------------------
Arrive(r) ==
  /\ At(r, "idle")
  /\ \E f \in Forms :
       req' = [req EXCEPT ![r] =
                 IF Parses(f)
                 THEN [@ EXCEPT !.form = f, !.tags = ParseTags(f.tags), !.step = "file"]
                 ELSE [@ EXCEPT !.step = "done", !.status = 400]]
  /\ UNCHANGED <<stores, hasQueue, cut, errors>>

Disconnect(r) ==
  /\ req[r].step \notin {"idle", "done"} /\ r \notin cut /\ MayFail
  /\ cut' = cut \cup {r}
  /\ UNCHANGED <<stores, hasQueue, req, errors>>

Respond(r) ==
  /\ At(r, "file") /\ req[r].at > Len(req[r].form.files)
  /\ req' = [req EXCEPT ![r].step = "done", ![r].status = Status(req[r])]
  /\ UNCHANGED <<stores, hasQueue, cut, errors>>

\* The rules come first; none of them has an effect.
Validate(r) ==
  /\ At(r, "file") /\ req[r].at <= Len(req[r].form.files)
  /\ IF Accepted(File(r), Tags(r)) THEN Goto(r, "put") ELSE Record(r, "errors")
  /\ UNCHANGED <<stores, hasQueue, cut, errors>>

\* An upload to the store that is reported as failed may be there all the same.
Store(r) ==
  /\ At(r, "put")
  /\ \/ /\ Works(r) /\ objects' = objects \cup {Key(r)}
        /\ Goto(r, "tags")
     \/ /\ Fails(r) /\ objects' \in {objects, objects \cup {Key(r)}}
        /\ Record(r, "errors")
  /\ UNCHANGED <<tags, row, links, jobs, hasQueue, cut>>

-----------------------------------------------------------------------------
(* processTags: GetOrCreate for one tag after the other.  An error leaves  *)
(* the object, and the tags created so far.                                *)

\* Only a name without upper-case letters can be in the table.
Found(tag) == ~tag.upper /\ tag.name \in tags

NextTag(r) == req' = [req EXCEPT ![r].tag = @ + 1, ![r].step = "tags"]

GetByName(r) ==
  /\ At(r, "tags") /\ req[r].tag <= Len(Tags(r))
  /\ \/ Works(r) /\ Found(Tag(r)) /\ NextTag(r)
     \/ Works(r) /\ ~Found(Tag(r)) /\ Goto(r, "create")
     \/ Fails(r) /\ Record(r, "errors")
  /\ UNCHANGED <<stores, hasQueue, cut>>

\* Validate, then INSERT: UNIQUE(name) refuses a name that came in between.
CreateTag(r) ==
  LET name == Tag(r).name IN
  /\ At(r, "create")
  /\ \/ /\ ValidateTag(Tag(r)) /\ name \notin tags /\ Works(r)
        /\ tags' = tags \cup {name} /\ NextTag(r)
     \/ /\ ~ValidateTag(Tag(r)) /\ UNCHANGED <<tags, errors>> /\ Record(r, "errors")
     \/ /\ ValidateTag(Tag(r)) /\ name \in tags /\ Works(r)
        /\ UNCHANGED tags /\ Record(r, "errors")
     \/ /\ ValidateTag(Tag(r)) /\ Fails(r)
        /\ tags' \in {tags, tags \cup {name}} /\ Record(r, "errors")
  /\ UNCHANGED <<row, links, objects, jobs, hasQueue, cut>>

BuildRow(r) ==
  /\ At(r, "tags") /\ req[r].tag > Len(Tags(r))
  /\ IF ValidateImage(BuildImage(Request(r))) THEN Goto(r, "insert")
                                              ELSE Record(r, "errors")
  /\ UNCHANGED <<stores, hasQueue, cut, errors>>

-----------------------------------------------------------------------------
(* saveImageToDatabase: the row, then its links; on an error the object is *)
(* deleted, and an error of that is ignored.                               *)

\* The key is new (UNIQUE(storage_path) refuses nothing here).
InsertRow(r) ==
  LET inserted == [row EXCEPT ![Key(r)] = "pending"] IN
  /\ At(r, "insert")
  /\ \/ /\ Works(r) /\ row' = inserted
        /\ req' = [req EXCEPT ![r].step = "link", ![r].tag = 1]
     \/ Fails(r) /\ row' \in {row, inserted} /\ Goto(r, "cleanup")
  /\ UNCHANGED <<tags, links, objects, jobs, hasQueue, cut>>

\* Mutated form: a link that fails is skipped.
AddToImageContinues(r) ==
  /\ At(r, "link") /\ req[r].tag <= Len(Tags(r))
  /\ \/ Works(r) /\ links' = [links EXCEPT ![Key(r)] = @ \cup {Tag(r).name}]
     \/ Fails(r) /\ UNCHANGED links
  /\ req' = [req EXCEPT ![r].tag = @ + 1]
  /\ UNCHANGED <<tags, row, objects, jobs, hasQueue, cut>>

AddToImage(r) ==
  /\ At(r, "link") /\ req[r].tag <= Len(Tags(r))
  /\ \/ /\ Works(r)
        /\ links' = [links EXCEPT ![Key(r)] = @ \cup {Tag(r).name}]
        /\ req' = [req EXCEPT ![r].tag = @ + 1]
     \/ Fails(r) /\ UNCHANGED links /\ Goto(r, "cleanup")
  /\ UNCHANGED <<tags, row, objects, jobs, hasQueue, cut>>

\* Mutated form: the cleanup is repeated until it works.
CleanUpRetries(r) ==
  /\ At(r, "cleanup")
  /\ \/ Works(r) /\ objects' = objects \ {Key(r)} /\ Record(r, "errors")
     \/ Fails(r) /\ UNCHANGED <<objects, req>>
  /\ UNCHANGED <<tags, row, links, jobs, hasQueue, cut>>

\* Storage.Delete looks whether the object exists, then deletes it.
CleanUp(r) ==
  /\ At(r, "cleanup")
  /\ \/ Works(r) /\ objects' = objects \ {Key(r)}
     \/ Fails(r) /\ UNCHANGED objects
  /\ Record(r, "errors")
  /\ UNCHANGED <<tags, row, links, jobs, hasQueue, cut>>

-----------------------------------------------------------------------------
(* enqueueProcessing: no error of it fails the upload. *)

\* Mutated form: without a queue there is nothing to do.
EnqueueIfAny(r) ==
  /\ At(r, "link") /\ req[r].tag > Len(Tags(r))
  /\ \/ /\ hasQueue /\ Works(r) /\ jobs' = jobs \cup {Key(r)} /\ Record(r, "images")
     \/ /\ ~hasQueue /\ UNCHANGED <<jobs, errors>> /\ Record(r, "images")
     \/ /\ hasQueue /\ Fails(r) /\ UNCHANGED jobs /\ Goto(r, "markFailed")
  /\ UNCHANGED <<tags, row, links, objects, hasQueue, cut>>

Enqueue(r) ==
  /\ At(r, "link") /\ req[r].tag > Len(Tags(r))
  /\ \/ /\ hasQueue /\ Works(r) /\ jobs' = jobs \cup {Key(r)} /\ Record(r, "images")
     \/ /\ ~hasQueue /\ UNCHANGED <<jobs, errors>> /\ Goto(r, "markFailed")
     \/ /\ hasQueue /\ Fails(r) /\ UNCHANGED jobs /\ Goto(r, "markFailed")
  /\ UNCHANGED <<tags, row, links, objects, hasQueue, cut>>

MarkFailed(r) ==
  /\ At(r, "markFailed")
  /\ \/ Works(r) /\ row' = [row EXCEPT ![Key(r)] = "failed"]
     \/ Fails(r) /\ UNCHANGED row
  /\ Record(r, "images")
  /\ UNCHANGED <<tags, links, objects, jobs, hasQueue, cut>>

-----------------------------------------------------------------------------
Handle(r) ==
  \/ Validate(r) \/ Store(r) \/ GetByName(r) \/ CreateTag(r) \/ BuildRow(r)
  \/ InsertRow(r) \/ AddToImage(r) \/ CleanUp(r) \/ Enqueue(r) \/ MarkFailed(r)
  \/ Respond(r)

Finished ==
  /\ \A r \in Requests : At(r, "done")
  /\ UNCHANGED vars

Next ==
  \/ \E r \in Requests : Arrive(r) \/ Disconnect(r) \/ Handle(r)
  \/ Finished

Spec == Init /\ [][Next]_vars
FairSpec == Spec /\ \A r \in Requests : WF_vars(Handle(r))

-----------------------------------------------------------------------------
Steps == {"idle", "file", "put", "tags", "create", "insert", "link", "cleanup",
          "markFailed", "done"}

\* Types of the stores and of the requests' records.
TypeOK ==
  /\ row \in [Keys -> {"none", "pending", "failed"}]
  /\ objects \subseteq Keys /\ jobs \subseteq Keys
  /\ cut \subseteq Requests /\ errors \in 0..MaxErrors
  /\ \A k \in Keys : links[k] \subseteq tags
  /\ \A r \in Requests :
       /\ req[r].step \in Steps /\ req[r].status \in {0, 201, 207, 400}
       /\ req[r].at \in 1..(Len(req[r].form.files) + 1)
       /\ req[r].tag \in 1..(Len(Tags(r)) + 1)

\* No call of this request has failed, nor of any other.
Quiet(r) == errors = 0 /\ r \notin cut

TagNames(r) == {Tags(r)[j].name : j \in DOMAIN Tags(r)}

\* The answer of uploadImagesHandler tells each file's fate: it is listed once,
\* as an image or as an error; a listed image has its row, its object and all
\* its tags; a file reported as an error has no row, unless a call failed on
\* the way (the INSERT applied, a link missing); 201 means that all are in.
ResponseIsTrue ==
  \A r \in Requests :
    /\ req[r].images \cap req[r].failed = {}
    /\ req[r].images \cup req[r].failed = 1..(req[r].at - 1)
    /\ \A i \in req[r].images :
         /\ row[<<r, i>>] # "none" /\ <<r, i>> \in objects
         /\ links[<<r, i>>] = TagNames(r)
    /\ Quiet(r) => \A i \in req[r].failed : row[<<r, i>>] = "none"
    /\ req[r].status = 201 => \A i \in DOMAIN req[r].form.files : row[<<r, i>>] # "none"

\* A tag that CreateTag refuses, or that a concurrent request may create first.
Troubled(r) ==
  \E j \in DOMAIN Tags(r) :
    \/ ~ValidateTag(Tags(r)[j])
    \/ /\ Tags(r)[j].name \notin Known
       /\ \E other \in Requests \ {r} : Tags(r)[j].name \in TagNames(other)

\* CreateImage stores the object before it looks at the tags.  With no call
\* failing, an object is left without a row only by a tag that could not be had.
OrphansNeedATag ==
  \A r \in Requests : \A i \in req[r].failed :
    Quiet(r) /\ <<r, i>> \in objects => Troubled(r)

\* An image as a camera makes it, under an ordinary name.
GoodFile(f) ==
  /\ f.content \in SupportedContentTypes /\ f.declared \in {"", f.content}
  /\ f.content \in ExpectedTypes(f.name.ext)
  /\ f.name.flaws = {} /\ f.name.length \in 1..246
  /\ f.size \in 12..MaxUploadSize

\* More tags than an image may have, or one that is too long for the
\* validation service: no file of the request passes.
OverTagged(r) ==
  \/ Len(Tags(r)) > MaxTagsPerImage
  \/ \E j \in DOMAIN Tags(r) : Tags(r)[j].length > MaxTagLen

\* A good file is stored whatever the other files of the request, and other
\* requests, are like, unless the tags are more than an image may have, a tag
\* could not be had or a call failed.
GoodFilesAreStored ==
  \A r \in Requests : \A i \in req[r].failed :
    Quiet(r) => OverTagged(r) \/ Troubled(r) \/ ~GoodFile(req[r].form.files[i])

\* Nothing scans for pending rows: an uploaded image has a job or, with no queue in
\* this process, says that it failed, as serve.go:43 has it.  (The comment at
\* bootstrap.go:55 says that without Valkey it stays pending: README, section 3.)
NothingWaitsForever ==
  \A r \in Requests : \A i \in req[r].images :
    Quiet(r) => <<r, i>> \in jobs \/ row[<<r, i>>] = "failed"

\* A request that was parsed gets its answer, also when its client is gone.
EveryRequestIsAnswered ==
  \A r \in Requests : At(r, "file") ~> At(r, "done")

\* "GetOrCreate gets an existing tag or creates a new one": an upload of a good
\* file with legal tags, no call failing, does not fail.  The code does not keep
\* this (README, section 3).
LegalTagsAreHad ==
  \A r \in Requests : \A i \in req[r].failed :
    /\ Quiet(r) /\ GoodFile(req[r].form.files[i])
    => \E j \in DOMAIN Tags(r) : ~ValidateTag(Tags(r)[j])

=============================================================================
