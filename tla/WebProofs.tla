------------------------------ MODULE WebProofs ------------------------------
(***************************************************************************)
(* What visitors of the web server are promised.                           *)
(*                                                                         *)
(* First the uploads.  The rules, for all files and tags: the check that   *)
(* comes after the object is stored never fails, and the limits of the     *)
(* layers agree.  Then the uploads themselves, for all numbers of requests,*)
(* files and failures: the four safety properties of Upload.               *)
(*                                                                         *)
(* Then the gallery: lists and pages, for tables, filters and page sizes of*)
(* every kind, and the page in the browser, for any number of requests.    *)
(***************************************************************************)
EXTENDS Upload, GalleryPage, FiniteSetTheorems, SequenceTheorems, TLAPS

-----------------------------------------------------------------------------
(* The rules of an upload. *)

\* CreateImage runs img.Validate when the object is stored and the tags are
\* there, and returns on its error without deleting the object.  Given tags that
\* GetOrCreate has accepted, it has no error to return: the unique name is no
\* longer than storage allows, and everything else was checked before.
THEOREM LastCheckPasses ==
  ASSUME NEW file \in Files, NEW labels \in Seq(TagTexts),
         Accepted(file, labels), \A i \in DOMAIN labels : ValidateTag(labels[i])
  PROVE  ValidateImage(BuildImage(CreateRequest(file, labels)))
<1> DEFINE cr == CreateRequest(file, labels)
           img == BuildImage(cr)
           unique == GenerateUniqueFilename(file.name)
<1>1. /\ cr.name = file.name /\ cr.tags = labels /\ cr.size = file.size
      /\ img.filename = unique /\ img.original = file.name
      /\ img.type = cr.type /\ img.size = file.size /\ img.tags = labels
  BY DEF CreateRequest, BuildImage
<1>2. file.name \in Names
  BY DEF Files
<1>3. unique.length = file.name.length + 9 /\ unique.flaws = file.name.flaws
  BY <1>2 DEF GenerateUniqueFilename, Names
<1>4. NameFits(file.name) /\ NameFits(unique)
  <2>1. NameFits(file.name)
    BY <1>1 DEF Accepted, ValidateCreateImageRequest
  <2>2. unique.length <= MaxFilenameLen
    BY <1>1 DEF Accepted, StorageAccepts, ValidateFilename
  <2>3. file.name.length \in Nat /\ file.name.length >= 1
    BY <2>1 DEF NameFits
  <2>4. unique.length \in 1..MaxFilenameLen
    <3> HIDE DEF unique
    <3> MaxFilenameLen \in Nat
      BY DEF MaxFilenameLen
    <3> QED BY <1>3, <2>2, <2>3
  <2>5. "encoding" \notin unique.flaws
    <3> HIDE DEF unique
    <3> QED BY <1>3, <2>1 DEF NameFits
  <2> QED
    BY <2>1, <2>4, <2>5 DEF NameFits
<1>5. img.type \in SupportedContentTypes /\ img.size \in 1..MaxFileSize
  BY <1>1 DEF Accepted, ValidateCreateImageRequest
<1>6. Len(img.tags) <= MaxTagsPerImage /\ NoDuplicates(img.tags)
  BY <1>1 DEF Accepted, ValidateCreateImageRequest
<1> QED
  BY <1>1, <1>4, <1>5, <1>6 DEF ValidateImage

\* The limit that decides on a file's size is the handler's: the larger ones of
\* the validation service and the domain, and the storage service's own, are
\* never the reason of a rejection.
THEOREM HandlerLimitDecides ==
  ASSUME NEW file \in Files, HandlerAccepts(file), file.size >= 1
  PROVE  file.size \in 1..MaxFileSize /\ file.size <= MaxStoredSize
<1>1. MB \in Nat
  BY DEF MB
<1>2. /\ MaxUploadSize \in Nat /\ MaxFileSize \in Nat
      /\ MaxStoredSize = MaxUploadSize /\ MaxUploadSize <= MaxFileSize
  BY <1>1 DEF MaxUploadSize, MaxStoredSize, MaxFileSize
<1>3. file.size \in Nat /\ file.size <= MaxUploadSize
  BY DEF HandlerAccepts, Files
<1> QED
  BY <1>2, <1>3

\* A content type that the handler accepts is accepted by the three layers
\* below it; the two types that only the validation service knows never pass.
THEOREM HandlerTypesAreAccepted ==
  ASSUME NEW file \in Files, NEW labels \in Seq(TagTexts), HandlerAccepts(file)
  PROVE  LET type == CreateRequest(file, labels).type IN
         /\ type \in ServiceContentTypes
         /\ type \in SupportedContentTypes
         /\ \E ext \in {".jpg", ".png", ".gif", ".webp"} : type \in ExpectedTypes(ext)
<1> DEFINE type == DetectContentType(file)
<1>1. CreateRequest(file, labels).type = type
  BY DEF CreateRequest
<1>2. type \in SupportedContentTypes
  BY DEF HandlerAccepts
<1>3. \E ext \in {".jpg", ".png", ".gif", ".webp"} : type \in ExpectedTypes(ext)
  BY <1>2 DEF SupportedContentTypes, ExpectedTypes, Jpegs
<1> QED
  BY <1>1, <1>2, <1>3 DEF ServiceContentTypes

-----------------------------------------------------------------------------
(* What parseTags returns. *)

\* Every place up to the number of elements of a set of numbers is taken: the
\* ranks of its elements are an injection into 1..n, thus onto it.
LEMMA NthIsThere ==
  ASSUME NEW S \in SUBSET Nat, IsFiniteSet(S), NEW k \in 1..Cardinality(S)
  PROVE  Nth(S, k) \in S /\ Cardinality({j \in S : j <= Nth(S, k)}) = k
<1> DEFINE n == Cardinality(S)
           UpTo(i) == {j \in S : j <= i}
           rank == [i \in S |-> Cardinality(UpTo(i))]
<1>1. n \in Nat /\ IsFiniteSet(1..n) /\ Cardinality(1..n) = n
  BY FS_CardinalityType, FS_Interval
<1>2. ASSUME NEW i \in S
      PROVE  IsFiniteSet(UpTo(i)) /\ Cardinality(UpTo(i)) \in 1..n
  <2>1. UpTo(i) \subseteq S /\ i \in UpTo(i)
    OBVIOUS
  <2>2. IsFiniteSet(UpTo(i)) /\ Cardinality(UpTo(i)) <= n
    <3> HIDE DEF UpTo
    <3> QED BY <2>1, FS_Subset
  <2>3. Cardinality(UpTo(i)) \in Nat /\ Cardinality(UpTo(i)) # 0
    <3> HIDE DEF UpTo
    <3> QED BY <2>1, <2>2, FS_CardinalityType, FS_EmptySet
  <2> QED
    <3> HIDE DEF UpTo, n
    <3> QED BY <1>1, <2>2, <2>3
<1>3. ASSUME NEW i \in S, NEW j \in S, i < j
      PROVE  Cardinality(UpTo(i)) # Cardinality(UpTo(j))
  <2>1. UpTo(i) \subseteq UpTo(j) /\ j \in UpTo(j) /\ j \notin UpTo(i)
    <3>1. i \in Nat /\ j \in Nat /\ i < j
      BY <1>3
    <3>2. \A x \in S : x <= i => x <= j
      BY <3>1
    <3>3. j <= j /\ ~(j <= i)
      BY <3>1
    <3> QED BY <3>2, <3>3
  <2> HIDE DEF UpTo
  <2> QED
    BY <1>2, <2>1, FS_Subset
<1>4. rank \in Injection(S, 1..n)
  <2>1. rank \in [S -> 1..n]
    <3> HIDE DEF UpTo, n
    <3> QED BY <1>2
  <2>2. ASSUME NEW i \in S, NEW j \in S, rank[i] = rank[j]
        PROVE  i = j
    <3>1. Cardinality(UpTo(i)) = Cardinality(UpTo(j))
      BY <2>2
    <3>2. i \in Nat /\ j \in Nat
      OBVIOUS
    <3> HIDE DEF UpTo, rank
    <3> QED
      BY <1>3, <3>1, <3>2
  <2> HIDE DEF rank
  <2> QED
    BY <2>1, <2>2 DEF Injection, IsInjective
<1>5. rank \in Surjection(S, 1..n)
  <2> HIDE DEF rank
  <2>1. /\ Cardinality(S) <= Cardinality(1..n)
        /\ Cardinality(S) = Cardinality(1..n) <=> rank \in Surjection(S, 1..n)
    BY <1>1, <1>4, FS_Injection
  <2> QED
    BY <1>1, <2>1
<1>6. \E i \in S : Cardinality(UpTo(i)) = k
  <2>1. \E i \in S : rank[i] = k
    <3> HIDE DEF rank, n
    <3>1. k \in 1..n
      BY DEF n
    <3> QED BY <1>5, <3>1 DEF Surjection
  <2> QED
    BY <2>1
<1> QED
  BY <1>6 DEF Nth

\* Pick returns elements of the sequence, at different places for different
\* positions of the result.
LEMMA PickIsFaithful ==
  ASSUME NEW E, NEW seq \in Seq(E), NEW S \in SUBSET DOMAIN seq
  PROVE  /\ Pick(seq, S) \in Seq(E)
         /\ \A k \in DOMAIN Pick(seq, S) : Nth(S, k) \in S /\ Pick(seq, S)[k] = seq[Nth(S, k)]
         /\ \A k, m \in DOMAIN Pick(seq, S) : k # m => Nth(S, k) # Nth(S, m)
<1>1. DOMAIN seq = 1..Len(seq) /\ Len(seq) \in Nat /\ S \subseteq Nat
  OBVIOUS
<1>2. IsFiniteSet(S) /\ Cardinality(S) \in Nat
  <2>1. IsFiniteSet(1..Len(seq))
    BY <1>1, FS_Interval
  <2> QED
    BY <1>1, <2>1, FS_Subset, FS_CardinalityType
<1>3. \A k \in 1..Cardinality(S) :
        Nth(S, k) \in S /\ Cardinality({j \in S : j <= Nth(S, k)}) = k
  BY <1>1, <1>2, NthIsThere
<1>4. DOMAIN Pick(seq, S) = 1..Cardinality(S)
  BY DEF Pick
<1>5. \A k \in 1..Cardinality(S) : Pick(seq, S)[k] = seq[Nth(S, k)]
  BY DEF Pick
<1>6. Pick(seq, S) \in Seq(E)
  <2>1. \A i \in DOMAIN seq : seq[i] \in E
    OBVIOUS
  <2>2. \A k \in 1..Cardinality(S) : seq[Nth(S, k)] \in E
    BY <1>3, <2>1
  <2> QED
    BY <1>2, <2>2 DEF Pick
<1>7. ASSUME NEW k \in 1..Cardinality(S), NEW m \in 1..Cardinality(S), Nth(S, k) = Nth(S, m)
      PROVE  k = m
  BY <1>3, <1>7
<1> QED
  BY <1>3, <1>4, <1>5, <1>6, <1>7

\* The tags of a request are tags of the form; none is blank and no two have the
\* same name.
LEMMA ParsedTagsAreClean ==
  ASSUME NEW parts \in Seq(TagTexts)
  PROVE  /\ ParseTags(parts) \in Seq(TagTexts)
         /\ \A j \in DOMAIN ParseTags(parts) : ~Blank(ParseTags(parts)[j])
         /\ NoDuplicates(ParseTags(parts))
<1> DEFINE Kept == {i \in DOMAIN parts :
                     /\ ~Blank(parts[i])
                     /\ \A j \in 1..(i - 1) : parts[j].name # parts[i].name}
           picked == Pick(parts, Kept)
<1>1. ParseTags(parts) = picked
  BY DEF ParseTags
<1>2. \A i \in Kept : ~Blank(parts[i])
  OBVIOUS
<1>3. ASSUME NEW i \in Kept, NEW j \in Kept, i # j
      PROVE  parts[i].name # parts[j].name
  <2>1. i \in Nat /\ j \in Nat /\ i >= 1 /\ j >= 1
    OBVIOUS
  <2>2. CASE i < j
    <3>1. i \in 1..(j - 1)
      BY <2>1, <2>2
    <3> QED BY <3>1
  <2>3. CASE j < i
    <3>1. j \in 1..(i - 1)
      BY <2>1, <2>3
    <3> QED BY <3>1
  <2> QED
    BY <1>3, <2>1, <2>2, <2>3
<1>4. Kept \in SUBSET DOMAIN parts
  OBVIOUS
<1> HIDE DEF Kept
<1>5. /\ picked \in Seq(TagTexts)
      /\ \A k \in DOMAIN picked : Nth(Kept, k) \in Kept /\ picked[k] = parts[Nth(Kept, k)]
      /\ \A k, m \in DOMAIN picked : k # m => Nth(Kept, k) # Nth(Kept, m)
  BY <1>4, PickIsFaithful
<1> HIDE DEF picked
<1>6. \A j \in DOMAIN picked : ~Blank(picked[j])
  BY <1>2, <1>5
<1>7. NoDuplicates(picked)
  BY <1>3, <1>5 DEF NoDuplicates
<1> QED
  BY <1>1, <1>5, <1>6, <1>7

\* What is short enough for one layer is so for the next.
LEMMA LimitsNest ==
  /\ \A n \in Nat : n # 0 /\ n <= MaxTagLen => n \in 1..MaxTagLen /\ n \in 1..MaxTagNameLen
  /\ \A n \in 1..246 : n + 9 <= MaxFilenameLen
BY DEF MaxTagLen, MaxTagNameLen, MaxFilenameLen

\* A good file passes all rules, unless the tags do not.
LEMMA GoodFilesPass ==
  ASSUME NEW file \in Files, NEW labels \in Seq(TagTexts), GoodFile(file),
         Len(labels) <= MaxTagsPerImage,
         \A j \in DOMAIN labels : labels[j].length <= MaxTagLen /\ ~Blank(labels[j]),
         NoDuplicates(labels)
  PROVE  Accepted(file, labels)
<1> DEFINE cr == CreateRequest(file, labels)
           type == DetectContentType(file)
<1>1. /\ cr.name = file.name /\ cr.tags = labels /\ cr.size = file.size /\ cr.type = type
  BY DEF CreateRequest
<1>2. type = file.content /\ type \in SupportedContentTypes /\ type # "image/jpg"
  <2>1. file.content \in SupportedContentTypes /\ file.content # "image/jpg"
    BY DEF GoodFile, Files
  <2>2. file.declared \in {"", file.content}
    BY DEF GoodFile
  <2> QED
    BY <2>1, <2>2 DEF DetectContentType, Sniffed
<1>3. /\ file.size \in Nat /\ file.size >= 12 /\ file.size <= MaxUploadSize
      /\ MaxUploadSize = MaxStoredSize /\ file.size \in 1..MaxFileSize
  <2>1. MaxUploadSize \in Nat /\ MaxFileSize \in Nat /\ MaxUploadSize <= MaxFileSize
    BY DEF MaxUploadSize, MaxFileSize, MB
  <2>2. file.size \in 12..MaxUploadSize
    BY DEF GoodFile
  <2>3. file.size \in Nat /\ file.size >= 12 /\ file.size <= MaxUploadSize
    BY <2>1, <2>2
  <2>4. file.size \in 1..MaxFileSize
    BY <2>1, <2>3
  <2> QED
    BY <2>3, <2>4 DEF MaxUploadSize, MaxStoredSize
<1>4. file.name \in Names /\ file.name.flaws = {} /\ file.name.length \in 1..246
  BY DEF GoodFile, Files
<1>5. \A j \in DOMAIN labels :
        labels[j].length \in 1..MaxTagLen /\ labels[j].length \in 1..MaxTagNameLen
  <2> SUFFICES ASSUME NEW j \in DOMAIN labels
               PROVE  labels[j].length \in 1..MaxTagLen /\ labels[j].length \in 1..MaxTagNameLen
    OBVIOUS
  <2>1. labels[j] \in TagTexts
    OBVIOUS
  <2>2. labels[j].length \in Nat /\ labels[j].length # 0
    BY <2>1 DEF TagTexts, Blank
  <2>3. labels[j].length <= MaxTagLen
    OBVIOUS
  <2> QED
    BY <2>2, <2>3, LimitsNest
<1>6. HandlerAccepts(file)
  <2>1. file.size <= MaxUploadSize /\ file.size > 0
    BY <1>3
  <2> QED
    BY <1>2, <2>1 DEF HandlerAccepts
<1>7. ValidateImageUpload(cr)
  <2> HIDE DEF cr, type
  <2>1. type \in ServiceContentTypes
    BY <1>2 DEF ServiceContentTypes
  <2> QED
    BY <1>1, <1>3, <1>4, <1>5, <2>1 DEF ValidateImageUpload, Blank
<1>8. NameFits(file.name)
  BY <1>4 DEF NameFits, MaxFilenameLen
<1>9. ValidateCreateImageRequest(cr)
  <2> HIDE DEF cr, type
  <2> QED
    BY <1>1, <1>2, <1>3, <1>5, <1>8 DEF ValidateCreateImageRequest
<1>10. StorageAccepts(file, cr)
  <2> DEFINE unique == GenerateUniqueFilename(file.name)
  <2>1. /\ unique.length = file.name.length + 9 /\ unique.flaws = {}
        /\ unique.ext = file.name.ext
    BY <1>4 DEF GenerateUniqueFilename, Names
  <2> HIDE DEF unique
  <2>2. unique.length <= MaxFilenameLen
    <3> QED BY <1>4, <2>1, LimitsNest
  <2>3. ValidateFilename(unique)
    BY <2>1, <2>2 DEF ValidateFilename
  <2>4. type \in ExpectedTypes(unique.ext)
    BY <1>2, <2>1 DEF GoodFile
  <2>5. file.size >= 4
    BY <1>3
  <2>6. file.content = (IF type \in Jpegs THEN "image/jpeg" ELSE type)
    BY <1>2 DEF Jpegs
  <2> HIDE DEF cr, type
  <2>7. ValidateMagicNumber(file, cr.type)
    BY <1>1, <2>5, <2>6 DEF ValidateMagicNumber
  <2> QED
    BY <1>1, <1>2, <1>3, <2>3, <2>4, <2>7 DEF StorageAccepts, unique
<1> QED
  BY <1>6, <1>7, <1>9, <1>10 DEF Accepted

-----------------------------------------------------------------------------
(* The invariant of the uploads, request by request. *)

Positive == Nat \ {0}
AnyForm == Forms \cup {NoForm}
AnyTags == Seq(TagTexts)
Places == SUBSET Nat
Codes == {0, 201, 207, 400}
Records ==
  [step : Steps, form : AnyForm, tags : AnyTags, at : Positive, tag : Positive,
   images : Places, failed : Places, status : Codes]

StoreTypes ==
  /\ row \in [Keys -> {"none", "pending", "failed"}]
  /\ links \in [Keys -> SUBSET tags]
  /\ objects \subseteq Keys /\ jobs \subseteq Keys
  /\ cut \subseteq Requests /\ IsFiniteSet(cut) /\ errors \in 0..MaxErrors
  /\ Known \subseteq tags

Types == req \in [Requests -> Records] /\ StoreTypes

\* Between two files, or before the first and after the last.
Outside == {"idle", "file", "done"}

\* Every file before the one at hand is listed once.
Placed(r) ==
  LET q == req[r] IN
  /\ q.at <= Len(q.form.files) + 1 /\ q.tag <= Len(q.tags) + 1
  /\ q.step \notin Outside => q.at <= Len(q.form.files)
  /\ q.step = "idle" => q.at = 1 /\ q.tags = <<>> /\ q.form.files = <<>>
  /\ q.step = "done" => q.at = Len(q.form.files) + 1
  /\ q.step \in {"idle", "file", "put"} => q.tag = 1
  /\ q.step = "create" => q.tag <= Len(q.tags)
  /\ q.step = "markFailed" => q.tag = Len(q.tags) + 1
  /\ q.status # 0 => q.step = "done"
  /\ q.status = 201 => q.failed = {}
  /\ q.images \cap q.failed = {} /\ q.images \cup q.failed = 1..(q.at - 1)

\* What parseTags and the rules have made sure of.
Cleared(r) ==
  /\ \A j \in DOMAIN Tags(r) : ~Blank(Tags(r)[j])
  /\ NoDuplicates(Tags(r))
  /\ req[r].step \notin Outside => Accepted(File(r), Tags(r))

Untouched(k) == row[k] = "none" /\ links[k] = {} /\ k \notin objects

\* Nothing is stored of the files to come; of the one at hand, what the steps
\* so far have stored.
AtHand(r) ==
  LET q == req[r] IN
  /\ \A i \in 1..MaxFiles :
       i > q.at \/ (i = q.at /\ q.step \in Outside \cup {"put"}) => Untouched(<<r, i>>)
  /\ q.step \in {"tags", "create", "insert"} =>
       Key(r) \in objects /\ row[Key(r)] = "none" /\ links[Key(r)] = {}
  /\ q.step \in {"link", "markFailed"} =>
       /\ Key(r) \in objects /\ row[Key(r)] # "none"
       /\ links[Key(r)] = {Tags(r)[j].name : j \in 1..(q.tag - 1)}

SomeOther(r, name) == \E other \in Requests \ {r} : name \in TagNames(other)

\* The tags of the image are in the table; the one that GetOrCreate did not find
\* there can have come in between only from another request.
HadTags(r) ==
  LET q == req[r] IN
  /\ q.step \in {"tags", "create"} => \A j \in 1..(q.tag - 1) : Tags(r)[j].name \in tags
  /\ q.step \in {"insert", "link", "markFailed"} => TagNames(r) \subseteq tags
  /\ q.step = "create" /\ ValidateTag(Tag(r)) =>
       /\ Tag(r).name \notin Known
       /\ Tag(r).name \in tags => SomeOther(r, Tag(r).name)

IsStored(r, i) ==
  /\ row[<<r, i>>] # "none" /\ <<r, i>> \in objects
  /\ links[<<r, i>>] = TagNames(r)
  /\ Quiet(r) => <<r, i>> \in jobs \/ row[<<r, i>>] = "failed"

IsMissed(r, i) ==
  Quiet(r) =>
    /\ row[<<r, i>>] = "none"
    /\ <<r, i>> \in objects => Troubled(r)
    /\ OverTagged(r) \/ Troubled(r) \/ ~GoodFile(req[r].form.files[i])

Outcomes(r) ==
  /\ \A i \in req[r].images : IsStored(r, i)
  /\ \A i \in req[r].failed : IsMissed(r, i)

Sound(r) ==
  /\ Placed(r) /\ Cleared(r) /\ AtHand(r) /\ HadTags(r) /\ Outcomes(r)
  /\ At(r, "cleanup") => ~Quiet(r)

UploadInv == Types /\ \A r \in Requests : Sound(r)

-----------------------------------------------------------------------------
(* What a step of one request does to the state. *)

\* The request is still about the same files and tags, and the others stay.
Alike(r) ==
  /\ req' \in [Requests -> Records]
  /\ \A s \in Requests \ {r} : req'[s] = req[s]
  /\ req'[r].form = req[r].form /\ req'[r].tags = req[r].tags
  /\ req'[r].status = req[r].status

Moves(r, step, tag) ==
  /\ Alike(r)
  /\ req'[r].step = step /\ req'[r].tag = tag /\ req'[r].at = req[r].at
  /\ req'[r].images = req[r].images /\ req'[r].failed = req[r].failed

Ends(r, images, failed) ==
  /\ Alike(r)
  /\ req'[r].step = "file" /\ req'[r].tag = 1 /\ req'[r].at = req[r].at + 1
  /\ req'[r].images = images /\ req'[r].failed = failed

\* The tables grow, calls that failed stay failed, and of the keys only the one
\* at hand is touched.
Reach(r) ==
  /\ \A k \in Keys : k # Key(r) =>
       row'[k] = row[k] /\ links'[k] = links[k] /\ (k \in objects' <=> k \in objects)
  /\ tags \subseteq tags' /\ tags' \subseteq tags \cup TagNames(r)
  /\ jobs \subseteq jobs'
  /\ \A s \in Requests : Quiet(s)' => Quiet(s)

\* The types of what a request's record is asked for.
LEMMA FieldTypes ==
  ASSUME Types, NEW r \in Requests
  PROVE  /\ req[r] \in Records
         /\ Tags(r) \in Seq(TagTexts)
         /\ req[r].at \in Positive /\ req[r].tag \in Positive /\ req[r].step \in Steps
         /\ req[r].images \in Places /\ req[r].failed \in Places
         /\ req[r].form.files \in Seq(Files) /\ Len(req[r].form.files) \in 0..MaxFiles
<1>1. req[r] \in Records
  BY DEF Types
<1>2. /\ req[r].at \in Positive /\ req[r].tag \in Positive /\ req[r].step \in Steps
      /\ req[r].images \in Places /\ req[r].failed \in Places
      /\ req[r].form \in AnyForm /\ req[r].tags \in AnyTags
  BY <1>1 DEF Records
<1>3. /\ NoForm.files \in Seq(Files) /\ Len(NoForm.files) \in 0..MaxFiles
  BY UploadAssumption DEF NoForm
<1>4. ASSUME NEW f \in Forms
      PROVE  f.files \in Seq(Files) /\ Len(f.files) \in 0..MaxFiles
  <2>1. f.files \in Seq(Files) /\ Len(f.files) <= MaxFiles /\ MaxFiles \in Nat
    BY UploadAssumption
  <2> QED
    BY <2>1
<1> QED
  BY <1>1, <1>2, <1>3, <1>4 DEF AnyForm, AnyTags, Tags

\* A request in a new record.
LEMMA RequestMoves ==
  ASSUME Types, NEW r \in Requests, NEW q \in Records, req' = [req EXCEPT ![r] = q]
  PROVE  /\ req' \in [Requests -> Records] /\ req'[r] = q
         /\ \A s \in Requests \ {r} : req'[s] = req[s]
  BY DEF Types

\* A step to another tag of the file at hand.
LEMMA TagMoves ==
  ASSUME Types, NEW r \in Requests, NEW step \in Steps, NEW tag \in Positive,
         req' = [req EXCEPT ![r] = [req[r] EXCEPT !.tag = tag, !.step = step]]
  PROVE  Moves(r, step, tag)
<1> DEFINE q == [req[r] EXCEPT !.tag = tag, !.step = step]
<1>1. req[r] \in Records
  BY DEF Types
<1>2. q \in Records
  BY <1>1, Zenon DEF Records
<1>3. /\ q.step = step /\ q.tag = tag /\ q.at = req[r].at /\ q.images = req[r].images
      /\ q.failed = req[r].failed /\ q.form = req[r].form /\ q.tags = req[r].tags
      /\ q.status = req[r].status
  BY <1>1, Zenon DEF Records
<1>4. req' = [req EXCEPT ![r] = q]
  OBVIOUS
<1> HIDE DEF q
<1> QED
  BY <1>2, <1>3, <1>4, RequestMoves DEF Moves, Alike

\* A step within the file at hand.
LEMMA GotoMoves ==
  ASSUME Types, NEW r \in Requests, NEW step \in Steps, Goto(r, step)
  PROVE  Moves(r, step, req[r].tag)
<1> DEFINE q == [req[r] EXCEPT !.step = step]
<1>1. req \in [Requests -> Records] /\ req[r] \in Records
  BY DEF Types
<1>2. q \in Records
  BY <1>1, Zenon DEF Records
<1>3. /\ q.step = step /\ q.tag = req[r].tag /\ q.at = req[r].at /\ q.images = req[r].images
      /\ q.failed = req[r].failed /\ q.form = req[r].form /\ q.tags = req[r].tags
      /\ q.status = req[r].status
  BY <1>1, Zenon DEF Records
<1>4. req' = [req EXCEPT ![r] = q]
  BY DEF Goto
<1> HIDE DEF q
<1> QED
  BY <1>2, <1>3, <1>4, RequestMoves DEF Moves, Alike

\* A file is listed with the images or with the errors, and the next one is at hand.
LEMMA RecordEnds ==
  ASSUME Types, NEW r \in Requests
  PROVE  /\ Record(r, "images") => Ends(r, req[r].images \cup {req[r].at}, req[r].failed)
         /\ Record(r, "errors") => Ends(r, req[r].images, req[r].failed \cup {req[r].at})
<1> DEFINE After(I, F) == [req[r] EXCEPT !.images = I, !.failed = F, !.at = req[r].at + 1,
                                          !.tag = 1, !.step = "file"]
<1>1. req \in [Requests -> Records] /\ req[r] \in Records
  BY DEF Types
<1>2. ASSUME NEW I \in Places, NEW F \in Places, req' = [req EXCEPT ![r] = After(I, F)]
      PROVE  Ends(r, I, F)
  <2>1. req[r].at + 1 \in Positive /\ 1 \in Positive /\ "file" \in Steps
    BY FieldTypes DEF Positive, Steps
  <2> DEFINE later == req[r].at + 1
  <2>2. After(I, F) \in Records
    <3> HIDE DEF later
    <3> QED BY <1>1, <2>1, Zenon DEF Records, later
  <2>3. /\ After(I, F).step = "file" /\ After(I, F).tag = 1 /\ After(I, F).at = req[r].at + 1
        /\ After(I, F).images = I /\ After(I, F).failed = F
        /\ After(I, F).form = req[r].form /\ After(I, F).tags = req[r].tags
        /\ After(I, F).status = req[r].status
    BY <1>1, Zenon DEF Records
  <2> HIDE DEF After
  <2> QED
    BY <1>2, <2>2, <2>3, RequestMoves DEF Ends, Alike
<1>3. /\ req[r].images \in Places /\ req[r].failed \in Places
      /\ req[r].images \cup {req[r].at} \in Places /\ req[r].failed \cup {req[r].at} \in Places
  BY FieldTypes DEF Places, Positive
<1> DEFINE I(list) == IF list = "images" THEN req[r].images \cup {req[r].at} ELSE req[r].images
           F(list) == IF list = "errors" THEN req[r].failed \cup {req[r].at} ELSE req[r].failed
<1>4. ASSUME NEW list, Record(r, list)
      PROVE  req' = [req EXCEPT ![r] = After(I(list), F(list))]
  BY <1>1, <1>4, Zenon DEF Record, Records
<1>5. /\ I("images") = req[r].images \cup {req[r].at} /\ F("images") = req[r].failed
      /\ I("errors") = req[r].images /\ F("errors") = req[r].failed \cup {req[r].at}
  OBVIOUS
<1> HIDE DEF After, I, F
<1>6. \A list : Record(r, list) => req' = [req EXCEPT ![r] = After(I(list), F(list))]
  BY <1>4
<1>7. Record(r, "images") => Ends(r, I("images"), F("images"))
  BY <1>2, <1>3, <1>5, <1>6
<1>8. Record(r, "errors") => Ends(r, I("errors"), F("errors"))
  BY <1>2, <1>3, <1>5, <1>6
<1> QED
  BY <1>5, <1>7, <1>8

\* Failed calls stay within their bound, and a request that met one is not quiet.
LEMMA CallsCount ==
  ASSUME Types, NEW r \in Requests, cut' = cut,
         Works(r) \/ Fails(r) \/ errors' = errors
  PROVE  /\ errors' \in 0..MaxErrors
         /\ \A s \in Requests : Quiet(s)' => Quiet(s)
         /\ Fails(r) => ~Quiet(r)'
<1>1. Cardinality(cut) \in Nat
  BY FS_CardinalityType DEF Types, StoreTypes
<1>2. errors \in 0..MaxErrors /\ MaxErrors \in Nat
  BY UploadAssumption DEF Types, StoreTypes
<1>3. CASE errors' = errors
  BY <1>2, <1>3 DEF Quiet, Fails
<1>4. CASE r \notin cut /\ MayFail /\ errors' = errors + 1
  <2>1. errors + Cardinality(cut) < MaxErrors
    BY <1>4 DEF MayFail
  <2>2. errors' \in 0..MaxErrors /\ errors' # 0
    BY <1>1, <1>2, <1>4, <2>1
  <2> QED
    BY <2>2 DEF Quiet
<1> QED
  BY <1>3, <1>4 DEF Works, Fails

-----------------------------------------------------------------------------
(* What is sound stays sound. *)

\* A request keeps its tags from when they are parsed; so the names that others
\* bring, and the trouble they make, only grow.
LEMMA TroubleGrows ==
  ASSUME NEW r \in Requests, Placed(r), req[r].step = "idle" \/ req'[r].tags = req[r].tags,
         \A s \in Requests \ {r} : req'[s] = req[s]
  PROVE  \A s \in Requests : /\ TagNames(s) \subseteq TagNames(s)'
                             /\ Troubled(s) => Troubled(s)'
<1>1. req[r].step = "idle" => TagNames(r) = {}
  BY DEF Placed, TagNames, Tags
<1>2. \A s \in Requests : TagNames(s) \subseteq TagNames(s)'
  <2>1. \A s \in Requests : req'[s].tags = req[s].tags => TagNames(s)' = TagNames(s)
    BY DEF TagNames, Tags
  <2> QED
    BY <1>1, <2>1
<1>3. ASSUME NEW s \in Requests, Troubled(s)
      PROVE  Troubled(s)'
  <2>1. PICK j \in DOMAIN Tags(s) :
          \/ ~ValidateTag(Tags(s)[j])
          \/ /\ Tags(s)[j].name \notin Known
             /\ \E other \in Requests \ {s} : Tags(s)[j].name \in TagNames(other)
    BY <1>3 DEF Troubled
  <2>2. Tags(s)' = Tags(s)
    BY <2>1 DEF Placed, Tags
  <2>3. \A other \in Requests \ {s} :
          Tags(s)[j].name \in TagNames(other) => Tags(s)[j].name \in TagNames(other)'
    BY <1>2
  <2> QED
    BY <2>1, <2>2, <2>3 DEF Troubled
<1> QED
  BY <1>2, <1>3

\* The outcome of a file stays as it was while nothing touches its key.
LEMMA OutcomeKept ==
  ASSUME NEW s \in Requests, NEW i,
         row'[<<s, i>>] = row[<<s, i>>], links'[<<s, i>>] = links[<<s, i>>],
         <<s, i>> \in objects' <=> <<s, i>> \in objects, jobs \subseteq jobs',
         Quiet(s)' => Quiet(s), Troubled(s) => Troubled(s)',
         req'[s].tags = req[s].tags, req'[s].form = req[s].form
  PROVE  /\ IsStored(s, i) => IsStored(s, i)'
         /\ IsMissed(s, i) => IsMissed(s, i)'
<1>1. Tags(s)' = Tags(s) /\ TagNames(s)' = TagNames(s) /\ (OverTagged(s) <=> OverTagged(s)')
  BY DEF Tags, TagNames, OverTagged
<1>2. IsStored(s, i) => IsStored(s, i)'
  BY <1>1 DEF IsStored
<1>3. IsMissed(s, i) => IsMissed(s, i)'
  BY <1>1 DEF IsMissed
<1> QED
  BY <1>2, <1>3

\* A request stays sound while nothing touches its files, and its tags are taken
\* by nobody but another request.
LEMMA StaysSound ==
  ASSUME Types, NEW s \in Requests, Sound(s), req'[s] = req[s],
         \A i \in 1..MaxFiles :
           /\ row'[<<s, i>>] = row[<<s, i>>] /\ links'[<<s, i>>] = links[<<s, i>>]
           /\ <<s, i>> \in objects' <=> <<s, i>> \in objects,
         tags \subseteq tags', jobs \subseteq jobs', Quiet(s)' => Quiet(s),
         \A name \in tags' : name \in tags \/ SomeOther(s, name),
         \A q \in Requests : TagNames(q) \subseteq TagNames(q)' /\ (Troubled(q) => Troubled(q)')
  PROVE  Sound(s)'
<1>1. Placed(s)' /\ Cleared(s)'
  BY DEF Sound, Placed, Cleared, Tags, File
<1>2. /\ Tags(s)' = Tags(s) /\ Tag(s)' = Tag(s) /\ Key(s)' = Key(s)
      /\ TagNames(s)' = TagNames(s)
  BY DEF Tags, Tag, Key, TagNames
<1>3. req[s].step \notin Outside => req[s].at \in 1..MaxFiles
  BY FieldTypes, UploadAssumption DEF Sound, Placed, Positive
<1>4. AtHand(s)'
  <2>1. ASSUME NEW i \in 1..MaxFiles, Untouched(<<s, i>>)
        PROVE  Untouched(<<s, i>>)'
    BY <2>1 DEF Untouched
  <2>2. req[s].step \notin Outside =>
          /\ row'[Key(s)] = row[Key(s)] /\ links'[Key(s)] = links[Key(s)]
          /\ Key(s) \in objects' <=> Key(s) \in objects
    BY <1>3 DEF Key
  <2>3. /\ req[s].step \in {"tags", "create", "insert"} => req[s].step \notin Outside
        /\ req[s].step \in {"link", "markFailed"} => req[s].step \notin Outside
    BY DEF Outside
  <2> QED
    BY <1>2, <2>1, <2>2, <2>3 DEF AtHand, Sound
<1>5. HadTags(s)'
  <2>1. ASSUME NEW name, SomeOther(s, name)
        PROVE  SomeOther(s, name)'
    BY <2>1 DEF SomeOther
  <2>2. ASSUME NEW name, name \in tags => SomeOther(s, name), name \in tags'
        PROVE  SomeOther(s, name)'
    BY <2>1, <2>2
  <2> QED
    BY <1>2, <2>2 DEF HadTags, Sound
<1>6. Outcomes(s)'
  <2>1. req[s].images \subseteq 1..MaxFiles /\ req[s].failed \subseteq 1..MaxFiles
    <3>1. req[s].images \cup req[s].failed = 1..(req[s].at - 1)
      BY DEF Sound, Placed
    <3>2. req[s].at <= Len(req[s].form.files) + 1
      BY DEF Sound, Placed
    <3>3. req[s].at \in Nat /\ Len(req[s].form.files) \in 0..MaxFiles /\ MaxFiles \in Nat
      BY FieldTypes, UploadAssumption DEF Positive
    <3>4. 1..(req[s].at - 1) \subseteq 1..MaxFiles
      BY <3>2, <3>3
    <3> QED
      BY <3>1, <3>4
  <2>2. ASSUME NEW i \in 1..MaxFiles
        PROVE  /\ IsStored(s, i) => IsStored(s, i)'
               /\ IsMissed(s, i) => IsMissed(s, i)'
    BY OutcomeKept
  <2>3. /\ \A i \in req[s].images : IsStored(s, i)'
        /\ \A i \in req[s].failed : IsMissed(s, i)'
    BY <2>1, <2>2 DEF Sound, Outcomes
  <2> QED
    BY <2>3 DEF Outcomes
<1>7. At(s, "cleanup")' => ~Quiet(s)'
  BY DEF Sound, At
<1> QED
  BY <1>1, <1>4, <1>5, <1>6, <1>7 DEF Sound

\* A step of one request leaves every other one sound.
LEMMA OthersStaySound ==
  ASSUME Types, NEW r \in Requests, NEW s \in Requests \ {r}, Sound(s), Reach(r),
         req'[s] = req[s],
         \A q \in Requests : TagNames(q) \subseteq TagNames(q)' /\ (Troubled(q) => Troubled(q)')
  PROVE  Sound(s)'
<1>1. ASSUME NEW i \in 1..MaxFiles
      PROVE  /\ row'[<<s, i>>] = row[<<s, i>>] /\ links'[<<s, i>>] = links[<<s, i>>]
             /\ <<s, i>> \in objects' <=> <<s, i>> \in objects
  <2>1. <<s, i>> \in Keys /\ <<s, i>> # Key(r)
    BY DEF Keys, Key
  <2> QED
    BY <2>1 DEF Reach
<1>2. \A name \in tags' : name \in tags \/ SomeOther(s, name)
  BY DEF Reach, SomeOther
<1> QED
  BY <1>1, <1>2, StaysSound DEF Reach

\* A file that a request has put behind it keeps its outcome.
LEMMA OwnOutcomesKept ==
  ASSUME Types, NEW r \in Requests, Sound(r), Reach(r), Troubled(r) => Troubled(r)',
         req'[r].tags = req[r].tags, req'[r].form = req[r].form
  PROVE  /\ \A i \in req[r].images : IsStored(r, i)'
         /\ \A i \in req[r].failed : IsMissed(r, i)'
<1>1. req[r].images \cup req[r].failed = 1..(req[r].at - 1)
  BY DEF Sound, Placed
<1>2. ASSUME NEW i \in 1..(req[r].at - 1)
      PROVE  <<r, i>> \in Keys \ {Key(r)}
  <2>1. req[r].at <= Len(req[r].form.files) + 1
    BY DEF Sound, Placed
  <2>2. req[r].at \in Nat /\ Len(req[r].form.files) \in 0..MaxFiles /\ MaxFiles \in Nat
    BY FieldTypes, UploadAssumption DEF Positive
  <2>3. i \in 1..MaxFiles /\ i # req[r].at
    BY <2>1, <2>2
  <2> QED
    BY <2>3 DEF Keys, Key
<1>3. ASSUME NEW i \in 1..(req[r].at - 1)
      PROVE  /\ IsStored(r, i) => IsStored(r, i)'
             /\ IsMissed(r, i) => IsMissed(r, i)'
  BY <1>2, OutcomeKept DEF Reach
<1> QED
  BY <1>1, <1>3 DEF Sound, Outcomes

\* Nothing is stored of the files after the one at hand, whatever is done to it.
LEMMA AheadUntouched ==
  ASSUME Types, NEW r \in Requests, Sound(r), Reach(r),
         NEW i \in 1..MaxFiles, i > req[r].at
  PROVE  Untouched(<<r, i>>)'
<1>1. Untouched(<<r, i>>)
  BY DEF Sound, AtHand
<1>2. i # req[r].at
  BY FieldTypes DEF Positive
<1>3. <<r, i>> \in Keys /\ <<r, i>> # Key(r)
  BY <1>2 DEF Keys, Key
<1> QED
  BY <1>1, <1>3 DEF Reach, Untouched

\* A file that is done with, in the list where it belongs.
LEMMA EndsSound ==
  ASSUME Types, NEW r \in Requests, Sound(r), Reach(r), NEW I, NEW F, Ends(r, I, F),
         req[r].step \notin {"idle", "done"}, req[r].at <= Len(req[r].form.files),
         \/ /\ I = req[r].images \cup {req[r].at} /\ F = req[r].failed
            /\ \A i : i = req[r].at => IsStored(r, i)'
         \/ /\ I = req[r].images /\ F = req[r].failed \cup {req[r].at}
            /\ \A i : i = req[r].at => IsMissed(r, i)',
         Troubled(r) => Troubled(r)'
  PROVE  Sound(r)'
<1>1. /\ req'[r].form = req[r].form /\ req'[r].tags = req[r].tags
      /\ req'[r].status = req[r].status /\ req'[r].step = "file" /\ req'[r].tag = 1
      /\ req'[r].at = req[r].at + 1 /\ req'[r].images = I /\ req'[r].failed = F
  BY DEF Ends, Alike
<1>2. /\ req[r].at \in Nat /\ req[r].at >= 1 /\ Len(req[r].form.files) \in Nat
      /\ Len(req[r].tags) \in Nat
  BY FieldTypes, UploadAssumption DEF Positive, Tags
<1>3. Placed(r)'
  <2>1. /\ req[r].at + 1 <= Len(req[r].form.files) + 1 /\ 1 <= Len(req[r].tags) + 1
    BY <1>2
  <2>2. req[r].images \cap req[r].failed = {} /\ req[r].images \cup req[r].failed = 1..(req[r].at - 1)
    BY DEF Sound, Placed
  <2>3. req[r].at \notin 1..(req[r].at - 1) /\ 1..(req[r].at - 1) \cup {req[r].at} = 1..req[r].at
    BY <1>2
  <2>4. I \cap F = {} /\ I \cup F = 1..req[r].at
    BY <2>2, <2>3
  <2>5. /\ req'[r].images \cap req'[r].failed = {}
        /\ req'[r].images \cup req'[r].failed = 1..(req'[r].at - 1)
    <3>1. req'[r].images = I /\ req'[r].failed = F
      BY <1>1
    <3>2. req'[r].at - 1 = req[r].at
        BY <1>1, <1>2
    <3> QED BY <2>4, <3>1, <3>2
  <2>6. req[r].status = 0
    BY DEF Sound, Placed
  <2>7. /\ req'[r].at <= Len(req'[r].form.files) + 1 /\ req'[r].tag <= Len(req'[r].tags) + 1
        /\ req'[r].step = "file" /\ req'[r].tag = 1 /\ req'[r].status = 0
    BY <1>1, <2>1, <2>6
  <2> QED
    BY <2>5, <2>7 DEF Placed, Outside
<1>4. Cleared(r)'
  BY <1>1 DEF Sound, Cleared, Tags, Outside
<1>5. AtHand(r)'
  <2>1. \A i \in 1..MaxFiles : i >= req[r].at + 1 => Untouched(<<r, i>>)'
    <3> SUFFICES ASSUME NEW i \in 1..MaxFiles, i >= req[r].at + 1
                 PROVE  Untouched(<<r, i>>)'
      OBVIOUS
    <3>1. i > req[r].at
      BY <1>2
    <3> QED
      BY <3>1, AheadUntouched
  <2>2. \A i \in 1..MaxFiles : i > req[r].at + 1 \/ i = req[r].at + 1 => i >= req[r].at + 1
    BY <1>2
  <2> QED
    BY <1>1, <2>1, <2>2 DEF AtHand
<1>6. HadTags(r)'
  BY <1>1 DEF HadTags
<1>7. Outcomes(r)'
  <2>1. /\ \A i \in req[r].images : IsStored(r, i)'
        /\ \A i \in req[r].failed : IsMissed(r, i)'
    BY <1>1, OwnOutcomesKept
  <2>2. /\ \A i \in I : IsStored(r, i)'
        /\ \A i \in F : IsMissed(r, i)'
    BY <2>1
  <2> QED
    BY <1>1, <2>2 DEF Outcomes
<1>8. At(r, "cleanup")' => ~Quiet(r)'
  BY <1>1 DEF At
<1> QED
  BY <1>3, <1>4, <1>5, <1>6, <1>7, <1>8 DEF Sound

\* The next step of the file at hand.
LEMMA MovesSound ==
  ASSUME Types, NEW r \in Requests, Sound(r), Reach(r), NEW step \in Steps \ Outside,
         NEW tag \in Positive, Moves(r, step, tag), req[r].step \notin {"idle", "done"},
         req[r].at <= Len(req[r].form.files), tag <= Len(Tags(r)) + 1,
         Accepted(File(r), Tags(r)),
         step = "put" => tag = 1, step = "create" => tag <= Len(Tags(r)),
         step = "markFailed" => tag = Len(Tags(r)) + 1,
         step = "put" => row'[Key(r)] = "none" /\ links'[Key(r)] = {} /\ Key(r) \notin objects',
         step \in {"tags", "create", "insert"} =>
           Key(r) \in objects' /\ row'[Key(r)] = "none" /\ links'[Key(r)] = {},
         step \in {"link", "markFailed"} =>
           /\ Key(r) \in objects' /\ row'[Key(r)] # "none"
           /\ links'[Key(r)] = {Tags(r)[j].name : j \in 1..(tag - 1)},
         HadTags(r)', step = "cleanup" => ~Quiet(r)',
         Troubled(r) => Troubled(r)'
  PROVE  Sound(r)'
<1>1. /\ req'[r].form = req[r].form /\ req'[r].tags = req[r].tags
      /\ req'[r].status = req[r].status /\ req'[r].step = step /\ req'[r].tag = tag
      /\ req'[r].at = req[r].at /\ req'[r].images = req[r].images
      /\ req'[r].failed = req[r].failed
  BY DEF Moves, Alike
<1>2. Key(r)' = Key(r) /\ Tags(r)' = Tags(r) /\ File(r)' = File(r)
  BY <1>1 DEF Key, Tags, File
<1>3. Placed(r)'
  <2>1. /\ req[r].at <= Len(req[r].form.files) + 1 /\ req[r].status = 0
        /\ req[r].images \cap req[r].failed = {}
        /\ req[r].images \cup req[r].failed = 1..(req[r].at - 1)
    BY DEF Sound, Placed
  <2>2. step \notin {"idle", "file", "done"}
    BY DEF Outside
  <2> QED
    BY <1>1, <2>1, <2>2 DEF Placed, Tags
<1>4. Cleared(r)'
  BY <1>1, <1>2 DEF Sound, Cleared
<1>5. AtHand(r)'
  <2>1. \A i \in 1..MaxFiles : i > req[r].at => Untouched(<<r, i>>)'
    BY AheadUntouched
  <2>2. \A i \in 1..MaxFiles : i = req[r].at /\ step \in Outside \cup {"put"} => Untouched(<<r, i>>)'
    BY DEF Key, Untouched
  <2>3. \A i \in 1..MaxFiles :
          i > req[r].at \/ (i = req[r].at /\ step \in Outside \cup {"put"}) => Untouched(<<r, i>>)'
    BY <2>1, <2>2
  <2> QED
    BY <1>1, <1>2, <2>3 DEF AtHand
<1>6. Outcomes(r)'
  <2>1. /\ \A i \in req[r].images : IsStored(r, i)'
        /\ \A i \in req[r].failed : IsMissed(r, i)'
    BY <1>1, OwnOutcomesKept
  <2> QED
    BY <1>1, <2>1 DEF Outcomes
<1>7. At(r, "cleanup")' => ~Quiet(r)'
  BY <1>1 DEF At
<1> QED
  BY <1>3, <1>4, <1>5, <1>6, <1>7 DEF Sound

-----------------------------------------------------------------------------
(* The steps, one by one. *)

\* A step of request r that leaves it, and the types, sound.
Step(r) ==
  /\ Types' /\ Sound(r)' /\ Reach(r)
  /\ \A s \in Requests \ {r} : req'[s] = req[s]
  /\ req[r].step = "idle" \/ req'[r].tags = req[r].tags

\* The file at hand has a key.
LEMMA KeyIsThere ==
  ASSUME Types, NEW r \in Requests, req[r].at <= Len(req[r].form.files)
  PROVE  /\ req[r].at \in 1..MaxFiles /\ Key(r) \in Keys /\ File(r) \in Files
<1>1. /\ req[r].at \in Nat /\ req[r].at >= 1 /\ Len(req[r].form.files) \in 0..MaxFiles
      /\ req[r].form.files \in Seq(Files) /\ MaxFiles \in Nat
  BY FieldTypes, UploadAssumption DEF Positive
<1>2. req[r].at \in 1..MaxFiles /\ req[r].at \in 1..Len(req[r].form.files)
  BY <1>1
<1> QED
  BY <1>1, <1>2 DEF Key, Keys, File

\* What has to hold when the file at hand is given up.
LEMMA ErrorStep ==
  ASSUME Types, NEW r \in Requests, Sound(r), StoreTypes', Reach(r), Record(r, "errors"),
         req[r].step \notin {"idle", "done"}, req[r].at <= Len(req[r].form.files),
         Quiet(r)' => /\ row'[Key(r)] = "none"
                      /\ Key(r) \in objects' => Troubled(r)
                      /\ OverTagged(r) \/ Troubled(r) \/ ~GoodFile(File(r))
  PROVE  Step(r)
<1>1. Ends(r, req[r].images, req[r].failed \cup {req[r].at})
  BY RecordEnds
<1>2. /\ \A s \in Requests \ {r} : req'[s] = req[s]
      /\ req'[r].tags = req[r].tags /\ req'[r].form = req[r].form
      /\ req' \in [Requests -> Records]
  BY <1>1 DEF Ends, Alike
<1>3. Troubled(r) => Troubled(r)'
  BY <1>2, TroubleGrows DEF Sound
<1>4. OverTagged(r) => OverTagged(r)'
  BY <1>2 DEF OverTagged, Tags
<1>5. ASSUME NEW i, i = req[r].at
      PROVE  IsMissed(r, i)'
  BY <1>2, <1>3, <1>4, <1>5 DEF IsMissed, Key, File
<1>6. Sound(r)'
  BY <1>1, <1>3, <1>5, EndsSound
<1> QED
  BY <1>2, <1>6 DEF Step, Types

\* What has to hold when the file at hand is in.
LEMMA ImageStep ==
  ASSUME Types, NEW r \in Requests, Sound(r), StoreTypes', Reach(r), Record(r, "images"),
         req[r].step \notin {"idle", "done"}, req[r].at <= Len(req[r].form.files),
         row'[Key(r)] # "none", Key(r) \in objects', links'[Key(r)] = TagNames(r),
         Quiet(r)' => Key(r) \in jobs' \/ row'[Key(r)] = "failed"
  PROVE  Step(r)
<1>1. Ends(r, req[r].images \cup {req[r].at}, req[r].failed)
  BY RecordEnds
<1>2. /\ \A s \in Requests \ {r} : req'[s] = req[s]
      /\ req'[r].tags = req[r].tags /\ req'[r].form = req[r].form
      /\ req' \in [Requests -> Records]
  BY <1>1 DEF Ends, Alike
<1>3. Troubled(r) => Troubled(r)'
  BY <1>2, TroubleGrows DEF Sound
<1>4. TagNames(r)' = TagNames(r)
  BY <1>2 DEF TagNames, Tags
<1>5. ASSUME NEW i, i = req[r].at
      PROVE  IsStored(r, i)'
  BY <1>2, <1>4, <1>5 DEF IsStored, Key
<1>6. Sound(r)'
  BY <1>1, <1>3, <1>5, EndsSound
<1> QED
  BY <1>2, <1>6 DEF Step, Types

\* What has to hold when the request goes on with the file at hand.
LEMMA MoveStep ==
  ASSUME Types, NEW r \in Requests, Sound(r), StoreTypes', Reach(r),
         NEW step \in Steps \ Outside, NEW tag \in Positive, Moves(r, step, tag),
         req[r].step \notin {"idle", "done"}, req[r].at <= Len(req[r].form.files),
         tag <= Len(Tags(r)) + 1, Accepted(File(r), Tags(r)),
         step = "put" => tag = 1, step = "create" => tag <= Len(Tags(r)),
         step = "markFailed" => tag = Len(Tags(r)) + 1,
         step = "put" => row'[Key(r)] = "none" /\ links'[Key(r)] = {} /\ Key(r) \notin objects',
         step \in {"tags", "create", "insert"} =>
           Key(r) \in objects' /\ row'[Key(r)] = "none" /\ links'[Key(r)] = {},
         step \in {"link", "markFailed"} =>
           /\ Key(r) \in objects' /\ row'[Key(r)] # "none"
           /\ links'[Key(r)] = {Tags(r)[j].name : j \in 1..(tag - 1)},
         HadTags(r)', step = "cleanup" => ~Quiet(r)'
  PROVE  Step(r)
<1>1. /\ \A s \in Requests \ {r} : req'[s] = req[s]
      /\ req'[r].tags = req[r].tags /\ req' \in [Requests -> Records]
  BY DEF Moves, Alike
<1>2. Troubled(r) => Troubled(r)'
  BY <1>1, TroubleGrows DEF Sound
<1>3. Sound(r)'
  BY <1>2, MovesSound
<1> QED
  BY <1>1, <1>3 DEF Step, Types

\* Where a step that is about a file finds its request.
LEMMA Busy ==
  ASSUME Types, NEW r \in Requests, Sound(r), req[r].step \notin Outside
  PROVE  /\ req[r].step \notin {"idle", "done"} /\ req[r].at <= Len(req[r].form.files)
         /\ Accepted(File(r), Tags(r)) /\ Key(r) \in Keys
         /\ req[r].tag \in Nat /\ req[r].tag >= 1 /\ req[r].tag <= Len(Tags(r)) + 1
         /\ Len(Tags(r)) \in Nat /\ Tags(r) \in Seq(TagTexts)
<1>1. req[r].at <= Len(req[r].form.files) /\ req[r].tag <= Len(Tags(r)) + 1
  BY DEF Sound, Placed, Tags
<1>2. Accepted(File(r), Tags(r))
  BY DEF Sound, Cleared
<1>3. req[r].tag \in Nat /\ req[r].tag >= 1 /\ Tags(r) \in Seq(TagTexts)
  BY FieldTypes DEF Positive
<1>4. Len(Tags(r)) \in Nat
  BY <1>3
<1> QED
  BY <1>1, <1>2, <1>3, <1>4, KeyIsThere DEF Outside

\* The checks before anything is stored.
LEMMA ValidateStep ==
  ASSUME Types, NEW r \in Requests, Sound(r), Validate(r)
  PROVE  Step(r)
<1>1. /\ req[r].step = "file" /\ req[r].at <= Len(req[r].form.files)
      /\ UNCHANGED <<tags, row, links, objects, jobs, cut, errors>>
  BY DEF Validate, At, stores
<1>2. StoreTypes' /\ Reach(r)
  BY <1>1 DEF Types, StoreTypes, Reach, Quiet
<1>3. req[r].at \in 1..MaxFiles /\ File(r) \in Files /\ Tags(r) \in Seq(TagTexts)
  BY <1>1, KeyIsThere, FieldTypes
<1>4. row[Key(r)] = "none" /\ links[Key(r)] = {} /\ Key(r) \notin objects
  <2>1. Untouched(<<r, req[r].at>>)
    BY <1>1, <1>3 DEF Sound, AtHand, Outside
  <2> QED
    BY <2>1 DEF Untouched, Key
<1>5. CASE Accepted(File(r), Tags(r))
  <2>1. Goto(r, "put") /\ "put" \in Steps \ Outside
    BY <1>5 DEF Validate, Steps, Outside
  <2>2. Moves(r, "put", req[r].tag)
    BY <2>1, GotoMoves
  <2>3. req[r].tag = 1 /\ 1 \in Positive /\ 1 <= Len(Tags(r)) + 1
    BY <1>1, <1>3 DEF Sound, Placed, Positive
  <2>4. HadTags(r)'
    BY <2>2 DEF HadTags, Moves
  <2> QED
    BY <1>1, <1>2, <1>4, <1>5, <2>1, <2>2, <2>3, <2>4, MoveStep
<1>6. CASE ~Accepted(File(r), Tags(r))
  <2>1. Record(r, "errors")
    BY <1>6 DEF Validate
  <2>2. OverTagged(r) \/ ~GoodFile(File(r))
    <3> SUFFICES ASSUME ~OverTagged(r), GoodFile(File(r))
                 PROVE  FALSE
      OBVIOUS
    <3>1. NoDuplicates(Tags(r)) /\ \A j \in DOMAIN Tags(r) : ~Blank(Tags(r)[j])
      BY DEF Sound, Cleared
    <3>2. Len(Tags(r)) <= MaxTagsPerImage
      <4>1. Len(Tags(r)) \in Nat /\ MaxTagsPerImage \in Nat
        BY <1>3 DEF MaxTagsPerImage
      <4> QED
        BY <4>1 DEF OverTagged
    <3>3. ASSUME NEW j \in DOMAIN Tags(r)
          PROVE  Tags(r)[j].length <= MaxTagLen
      <4>1. Tags(r)[j].length \in Nat /\ MaxTagLen \in Nat
        <5>1. Tags(r)[j] \in TagTexts
          BY <1>3
        <5> QED
          BY <5>1 DEF TagTexts, MaxTagLen
      <4>2. ~(Tags(r)[j].length > MaxTagLen)
        BY DEF OverTagged
      <4> QED
        BY <4>1, <4>2
    <3> QED
      BY <1>3, <1>6, <3>1, <3>2, <3>3, GoodFilesPass
  <2> QED
    BY <1>1, <1>2, <1>4, <2>1, <2>2, ErrorStep
<1> QED
  BY <1>5, <1>6

\* The object is stored, or the call fails.
LEMMA StoreStep ==
  ASSUME Types, NEW r \in Requests, Sound(r), Store(r)
  PROVE  Step(r)
<1>1. /\ req[r].step = "put" /\ UNCHANGED <<tags, row, links, jobs, cut>>
      /\ Works(r) \/ Fails(r)
      /\ objects' = objects \/ objects' = objects \cup {Key(r)}
  BY DEF Store, At
<1>2. req[r].step \notin Outside
  BY <1>1 DEF Outside
<1>3. /\ errors' \in 0..MaxErrors /\ \A s \in Requests : Quiet(s)' => Quiet(s)
      /\ Fails(r) => ~Quiet(r)'
  BY <1>1, CallsCount
<1>4. StoreTypes' /\ Reach(r)
  <2>1. objects' \subseteq Keys
    BY <1>1, <1>2, Busy DEF Types, StoreTypes
  <2> QED
    BY <1>1, <1>3, <2>1 DEF Types, StoreTypes, Reach
<1>5. CASE Fails(r) /\ Record(r, "errors")
  BY <1>2, <1>3, <1>4, <1>5, Busy, ErrorStep
<1>6. CASE objects' = objects \cup {Key(r)} /\ Goto(r, "tags")
  <2>1. "tags" \in Steps \ Outside
    BY DEF Steps, Outside
  <2>2. Moves(r, "tags", req[r].tag)
    BY <1>6, <2>1, GotoMoves
  <2>3. req[r].tag = 1 /\ 1 \in Positive /\ 1 <= Len(Tags(r)) + 1
    BY <1>1, <1>2, Busy DEF Sound, Placed, Positive
  <2>4. row[Key(r)] = "none" /\ links[Key(r)] = {}
    <3>1. req[r].at \in 1..MaxFiles
      BY <1>2, Busy, KeyIsThere
    <3>2. Untouched(<<r, req[r].at>>)
      BY <1>1, <3>1 DEF Sound, AtHand
    <3> QED
      BY <3>2 DEF Untouched, Key
  <2>5. HadTags(r)'
    <3>1. req'[r].step = "tags" /\ req'[r].tag = 1
      BY <2>2, <2>3 DEF Moves
    <3> QED
      BY <3>1 DEF HadTags
  <2> QED
    BY <1>1, <1>2, <1>4, <1>6, <2>1, <2>2, <2>3, <2>4, <2>5, Busy, MoveStep
<1> QED
  BY <1>5, <1>6 DEF Store

\* The lookup of a tag: found, missing, or failed.
LEMMA GetByNameStep ==
  ASSUME Types, NEW r \in Requests, Sound(r), GetByName(r)
  PROVE  Step(r)
<1>1. /\ req[r].step = "tags" /\ req[r].tag <= Len(Tags(r))
      /\ UNCHANGED <<tags, row, links, objects, jobs, cut>>
      /\ Works(r) \/ Fails(r)
  BY DEF GetByName, At, stores
<1>2. req[r].step \notin Outside
  BY <1>1 DEF Outside
<1>3. /\ errors' \in 0..MaxErrors /\ \A s \in Requests : Quiet(s)' => Quiet(s)
      /\ Fails(r) => ~Quiet(r)'
  BY <1>1, CallsCount
<1>4. StoreTypes' /\ Reach(r)
  BY <1>1, <1>3 DEF Types, StoreTypes, Reach
<1>5. Key(r) \in objects /\ row[Key(r)] = "none" /\ links[Key(r)] = {}
  BY <1>1 DEF Sound, AtHand
<1>6. \A j \in 1..(req[r].tag - 1) : Tags(r)[j].name \in tags
  BY <1>1 DEF Sound, HadTags
<1>7. /\ req[r].tag \in Nat /\ req[r].tag >= 1 /\ Len(Tags(r)) \in Nat
      /\ req[r].tag \in Positive /\ req[r].tag + 1 \in Positive
      /\ req[r].tag + 1 <= Len(Tags(r)) + 1 /\ req[r].tag <= Len(Tags(r)) + 1
  <2>1. req[r].tag \in Nat /\ req[r].tag >= 1 /\ Len(Tags(r)) \in Nat
    BY <1>2, Busy
  <2> QED
    BY <1>1, <2>1 DEF Positive
<1>8. CASE Fails(r) /\ Record(r, "errors")
  BY <1>2, <1>3, <1>4, <1>8, Busy, ErrorStep
<1>9. CASE Found(Tag(r)) /\ NextTag(r)
  <2>1. "tags" \in Steps \ Outside
    BY DEF Steps, Outside
  <2>2. Moves(r, "tags", req[r].tag + 1)
    <3>1. req' = [req EXCEPT ![r] = [req[r] EXCEPT !.tag = req[r].tag + 1, !.step = "tags"]]
      BY <1>9 DEF NextTag, Types
    <3> QED
      BY <1>7, <2>1, <3>1, TagMoves
  <2>3. HadTags(r)'
    <3>1. req'[r].step = "tags" /\ req'[r].tag = req[r].tag + 1 /\ Tags(r)' = Tags(r)
      BY <2>2 DEF Moves, Alike, Tags
    <3>2. Tags(r)[req[r].tag].name \in tags
      BY <1>9 DEF Found, Tag
    <3>3. \A j \in 1..req[r].tag : Tags(r)[j].name \in tags
      <4>1. \A j \in 1..req[r].tag : j \in 1..(req[r].tag - 1) \/ j = req[r].tag
        BY <1>7
      <4> QED
        BY <1>6, <3>2, <4>1
    <3>4. req'[r].tag - 1 = req[r].tag
      BY <1>7, <3>1
    <3>5. HadTags(r)' <=> \A j \in 1..(req'[r].tag - 1) : (Tags(r)')[j].name \in tags'
      BY <3>1 DEF HadTags
    <3> QED
      BY <1>1, <3>1, <3>3, <3>4, <3>5
  <2> QED
    BY <1>1, <1>2, <1>4, <1>5, <1>7, <2>1, <2>2, <2>3, Busy, MoveStep
<1>10. CASE ~Found(Tag(r)) /\ Goto(r, "create")
  <2>1. "create" \in Steps \ Outside
    BY DEF Steps, Outside
  <2>2. Moves(r, "create", req[r].tag)
    BY <1>10, <2>1, GotoMoves
  <2>3. HadTags(r)'
    <3>1. /\ req'[r].step = "create" /\ req'[r].tag = req[r].tag /\ Tags(r)' = Tags(r)
          /\ Tag(r)' = Tag(r)
      BY <2>2 DEF Moves, Alike, Tags, Tag
    <3>2. ValidateTag(Tag(r)) => Tag(r).name \notin tags /\ Tag(r).name \notin Known
      BY <1>10 DEF Found, ValidateTag, Types, StoreTypes
    <3> QED
      BY <1>1, <1>6, <3>1, <3>2 DEF HadTags
  <2> QED
    BY <1>1, <1>2, <1>4, <1>5, <1>7, <2>1, <2>2, <2>3, Busy, MoveStep
<1> QED
  BY <1>8, <1>9, <1>10 DEF GetByName

\* The INSERT of a tag: refused, in, failed, or too late.
LEMMA CreateTagStep ==
  ASSUME Types, NEW r \in Requests, Sound(r), CreateTag(r)
  PROVE  Step(r)
<1> DEFINE name == Tag(r).name
<1>1. /\ req[r].step = "create" /\ UNCHANGED <<row, links, objects, jobs, cut>>
      /\ Works(r) \/ Fails(r) \/ errors' = errors
      /\ tags' = tags \/ tags' = tags \cup {name}
  BY DEF CreateTag, At
<1>2. req[r].step \notin Outside
  BY <1>1 DEF Outside
<1>3. /\ errors' \in 0..MaxErrors /\ \A s \in Requests : Quiet(s)' => Quiet(s)
      /\ Fails(r) => ~Quiet(r)'
  BY <1>1, CallsCount
<1>4. /\ req[r].tag \in Nat /\ req[r].tag >= 1 /\ Len(Tags(r)) \in Nat
      /\ req[r].tag <= Len(Tags(r)) /\ req[r].tag + 1 \in Positive
      /\ req[r].tag + 1 <= Len(Tags(r)) + 1 /\ req[r].tag \in DOMAIN Tags(r)
  <2>1. req[r].tag <= Len(Tags(r))
    BY <1>1 DEF Sound, Placed, Tags
  <2>2. req[r].tag \in Nat /\ req[r].tag >= 1 /\ Len(Tags(r)) \in Nat /\ Tags(r) \in Seq(TagTexts)
    BY <1>2, Busy
  <2> QED
    BY <2>1, <2>2 DEF Positive
<1>5. name \in TagNames(r)
  BY <1>4 DEF TagNames, Tag
<1>6. StoreTypes' /\ Reach(r)
  <2>1. links' \in [Keys -> SUBSET tags'] /\ Known \subseteq tags'
    BY <1>1 DEF Types, StoreTypes
  <2> QED
    BY <1>1, <1>3, <1>5, <2>1 DEF Types, StoreTypes, Reach
<1>7. Key(r) \in objects /\ row[Key(r)] = "none" /\ links[Key(r)] = {}
  BY <1>1 DEF Sound, AtHand
<1>8. CASE Works(r) /\ tags' = tags \cup {name} /\ NextTag(r)
  <2>1. "tags" \in Steps \ Outside
    BY DEF Steps, Outside
  <2>2. Moves(r, "tags", req[r].tag + 1)
    <3>1. req' = [req EXCEPT ![r] = [req[r] EXCEPT !.tag = req[r].tag + 1, !.step = "tags"]]
      BY <1>8 DEF NextTag, Types
    <3> QED
      BY <1>4, <2>1, <3>1, TagMoves
  <2>3. HadTags(r)'
    <3>1. req'[r].step = "tags" /\ req'[r].tag = req[r].tag + 1 /\ Tags(r)' = Tags(r)
      BY <2>2 DEF Moves, Alike, Tags
    <3>2. \A j \in 1..(req[r].tag - 1) : Tags(r)[j].name \in tags
      BY <1>1 DEF Sound, HadTags
    <3>3. \A j \in 1..req[r].tag : Tags(r)[j].name \in tags'
      <4>1. \A j \in 1..req[r].tag : j \in 1..(req[r].tag - 1) \/ j = req[r].tag
        BY <1>4
      <4> QED
        BY <1>8, <3>2, <4>1 DEF Tag
    <3>4. req'[r].tag - 1 = req[r].tag
      BY <1>4, <3>1
    <3>5. HadTags(r)' <=> \A j \in 1..(req'[r].tag - 1) : (Tags(r)')[j].name \in tags'
      BY <3>1 DEF HadTags
    <3> QED
      BY <3>1, <3>3, <3>4, <3>5
  <2> QED
    BY <1>1, <1>2, <1>4, <1>6, <1>7, <2>1, <2>2, <2>3, Busy, MoveStep
<1>9. CASE ~ValidateTag(Tag(r)) /\ Record(r, "errors")
  <2>1. Troubled(r)
    BY <1>4, <1>9 DEF Troubled, Tag
  <2> QED
    BY <1>1, <1>2, <1>6, <1>7, <1>9, <2>1, Busy, ErrorStep
<1>10. CASE ValidateTag(Tag(r)) /\ name \in tags /\ Record(r, "errors")
  <2>1. name \notin Known /\ SomeOther(r, name)
    BY <1>1, <1>10 DEF Sound, HadTags
  <2>2. Troubled(r)
    BY <1>4, <2>1 DEF Troubled, SomeOther, Tag
  <2> QED
    BY <1>1, <1>2, <1>6, <1>7, <1>10, <2>2, Busy, ErrorStep
<1>11. CASE Fails(r) /\ Record(r, "errors")
  BY <1>2, <1>3, <1>6, <1>11, Busy, ErrorStep
<1> QED
  BY <1>8, <1>9, <1>10, <1>11 DEF CreateTag

\* The last check, after the object and the tags.
LEMMA BuildRowStep ==
  ASSUME Types, NEW r \in Requests, Sound(r), BuildRow(r)
  PROVE  Step(r)
<1>1. /\ req[r].step = "tags" /\ req[r].tag > Len(Tags(r))
      /\ UNCHANGED <<tags, row, links, objects, jobs, cut, errors>>
  BY DEF BuildRow, At, stores
<1>2. req[r].step \notin Outside
  BY <1>1 DEF Outside
<1>3. StoreTypes' /\ Reach(r)
  BY <1>1 DEF Types, StoreTypes, Reach, Quiet
<1>4. Key(r) \in objects /\ row[Key(r)] = "none" /\ links[Key(r)] = {}
  BY <1>1 DEF Sound, AtHand
<1>5. /\ req[r].tag - 1 = Len(Tags(r)) /\ req[r].tag \in Positive
      /\ req[r].tag <= Len(Tags(r)) + 1 /\ DOMAIN Tags(r) = 1..Len(Tags(r))
  <2>1. /\ req[r].tag \in Nat /\ req[r].tag >= 1 /\ req[r].tag <= Len(Tags(r)) + 1
        /\ Len(Tags(r)) \in Nat /\ Tags(r) \in Seq(TagTexts)
    BY <1>2, Busy
  <2> QED
    BY <1>1, <2>1 DEF Positive
<1>6. CASE ValidateImage(BuildImage(Request(r)))
  <2>1. Goto(r, "insert") /\ "insert" \in Steps \ Outside
    BY <1>6 DEF BuildRow, Steps, Outside
  <2>2. Moves(r, "insert", req[r].tag)
    BY <2>1, GotoMoves
  <2>3. HadTags(r)'
    <3>1. \A j \in 1..(req[r].tag - 1) : Tags(r)[j].name \in tags
      BY <1>1 DEF Sound, HadTags
    <3>2. TagNames(r) \subseteq tags
      BY <1>5, <3>1 DEF TagNames
    <3>3. req'[r].step = "insert" /\ TagNames(r)' = TagNames(r)
      BY <2>2 DEF Moves, Alike, TagNames, Tags
    <3> QED
      BY <1>1, <3>2, <3>3 DEF HadTags
  <2> QED
    BY <1>1, <1>2, <1>3, <1>4, <1>5, <2>1, <2>2, <2>3, Busy, MoveStep
<1>7. CASE ~ValidateImage(BuildImage(Request(r)))
  <2>1. Record(r, "errors")
    BY <1>7 DEF BuildRow
  <2>2. /\ Accepted(File(r), Tags(r)) /\ File(r) \in Files /\ Tags(r) \in Seq(TagTexts)
    BY <1>2, Busy, KeyIsThere
  <2>3. \E j \in DOMAIN Tags(r) : ~ValidateTag(Tags(r)[j])
    BY <1>7, <2>2, LastCheckPasses DEF Request
  <2>4. Troubled(r)
    BY <2>3 DEF Troubled
  <2> QED
    BY <1>1, <1>2, <1>3, <1>4, <2>1, <2>4, Busy, ErrorStep
<1> QED
  BY <1>6, <1>7

\* The INSERT of the row.
LEMMA InsertRowStep ==
  ASSUME Types, NEW r \in Requests, Sound(r), InsertRow(r)
  PROVE  Step(r)
<1> DEFINE inserted == [row EXCEPT ![Key(r)] = "pending"]
<1>1. /\ req[r].step = "insert" /\ UNCHANGED <<tags, links, objects, jobs, cut>>
      /\ Works(r) \/ Fails(r)
      /\ row' = row \/ row' = inserted
  BY DEF InsertRow, At
<1>2. req[r].step \notin Outside
  BY <1>1 DEF Outside
<1>3. /\ errors' \in 0..MaxErrors /\ \A s \in Requests : Quiet(s)' => Quiet(s)
      /\ Fails(r) => ~Quiet(r)'
  BY <1>1, CallsCount
<1>4. /\ row \in [Keys -> {"none", "pending", "failed"}] /\ Key(r) \in Keys
      /\ inserted \in [Keys -> {"none", "pending", "failed"}] /\ inserted[Key(r)] = "pending"
      /\ \A k \in Keys : k # Key(r) => inserted[k] = row[k]
  BY <1>2, Busy DEF Types, StoreTypes
<1> HIDE DEF inserted
<1>5. StoreTypes' /\ Reach(r)
  BY <1>1, <1>3, <1>4 DEF Types, StoreTypes, Reach
<1>6. Key(r) \in objects /\ row[Key(r)] = "none" /\ links[Key(r)] = {} /\ TagNames(r) \subseteq tags
  BY <1>1 DEF Sound, AtHand, HadTags
<1>7. /\ 1 \in Positive /\ 1 <= Len(Tags(r)) + 1 /\ req[r].tag \in Positive
      /\ req[r].tag <= Len(Tags(r)) + 1
  <2>1. /\ req[r].tag \in Nat /\ req[r].tag >= 1 /\ req[r].tag <= Len(Tags(r)) + 1
        /\ Len(Tags(r)) \in Nat
    BY <1>2, Busy
  <2> QED
    BY <2>1 DEF Positive
<1>8. CASE row' = inserted /\ req' = [req EXCEPT ![r].step = "link", ![r].tag = 1]
  <2>1. "link" \in Steps \ Outside
    BY DEF Steps, Outside
  <2>2. Moves(r, "link", 1)
    <3>1. req' = [req EXCEPT ![r] = [req[r] EXCEPT !.tag = 1, !.step = "link"]]
      BY <1>8 DEF Types
    <3> QED
      BY <1>7, <2>1, <3>1, TagMoves
  <2>3. HadTags(r)'
    <3>1. req'[r].step = "link" /\ TagNames(r)' = TagNames(r)
      BY <2>2 DEF Moves, Alike, TagNames, Tags
    <3> QED
      BY <1>1, <1>6, <3>1 DEF HadTags
  <2>4. links'[Key(r)] = {Tags(r)[j].name : j \in 1..(1 - 1)}
    BY <1>1, <1>6
  <2> QED
    BY <1>1, <1>2, <1>4, <1>5, <1>6, <1>7, <1>8, <2>1, <2>2, <2>3, <2>4, Busy, MoveStep
<1>9. CASE Fails(r) /\ Goto(r, "cleanup")
  <2>1. "cleanup" \in Steps \ Outside
    BY DEF Steps, Outside
  <2>2. Moves(r, "cleanup", req[r].tag)
    BY <1>9, <2>1, GotoMoves
  <2>3. HadTags(r)'
    BY <2>2 DEF HadTags, Moves
  <2> QED
    BY <1>2, <1>3, <1>5, <1>7, <1>9, <2>1, <2>2, <2>3, Busy, MoveStep
<1> QED
  BY <1>8, <1>9 DEF InsertRow, inserted

\* What holds of a request that links tags, and what each of its steps counts on.
LEMMA Linking ==
  ASSUME Types, NEW r \in Requests, Sound(r), req[r].step = "link"
  PROVE  /\ req[r].step \notin Outside
         /\ Key(r) \in objects /\ row[Key(r)] # "none" /\ TagNames(r) \subseteq tags
         /\ links[Key(r)] = {Tags(r)[j].name : j \in 1..(req[r].tag - 1)}
         /\ req[r].tag \in Positive /\ req[r].tag <= Len(Tags(r)) + 1
<1>1. req[r].step \notin Outside
  BY DEF Outside
<1> QED
  BY <1>1, Busy, FieldTypes DEF Sound, AtHand, HadTags

\* A tag that cannot be linked leads to the cleanup, and its call had failed.
LEMMA CleanupAhead ==
  ASSUME Types, NEW r \in Requests, Sound(r), req[r].step = "link", StoreTypes', Reach(r),
         Goto(r, "cleanup"), ~Quiet(r)'
  PROVE  Step(r)
<1>1. "cleanup" \in Steps \ Outside
  BY DEF Steps, Outside
<1>2. Moves(r, "cleanup", req[r].tag)
  BY <1>1, GotoMoves
<1>3. HadTags(r)'
  BY <1>2 DEF HadTags, Moves
<1> QED
  BY <1>1, <1>2, <1>3, Linking, Busy, MoveStep

\* A tag is linked to the row.
LEMMA AddToImageStep ==
  ASSUME Types, NEW r \in Requests, Sound(r), AddToImage(r)
  PROVE  Step(r)
<1> DEFINE linked == [links EXCEPT ![Key(r)] = @ \cup {Tag(r).name}]
<1>1. /\ req[r].step = "link" /\ req[r].tag <= Len(Tags(r))
      /\ UNCHANGED <<tags, row, objects, jobs, cut>>
      /\ Works(r) \/ Fails(r)
      /\ links' = links \/ links' = linked
  BY DEF AddToImage, At
<1>2. /\ errors' \in 0..MaxErrors /\ \A s \in Requests : Quiet(s)' => Quiet(s)
      /\ Fails(r) => ~Quiet(r)'
  BY <1>1, CallsCount
<1>3. /\ req[r].tag \in Nat /\ req[r].tag >= 1 /\ Len(Tags(r)) \in Nat
      /\ req[r].tag + 1 \in Positive /\ req[r].tag + 1 <= Len(Tags(r)) + 1
      /\ req[r].tag \in DOMAIN Tags(r)
  <2>1. req[r].tag \in Nat /\ req[r].tag >= 1 /\ Len(Tags(r)) \in Nat /\ Tags(r) \in Seq(TagTexts)
    BY <1>1, Linking, Busy
  <2> QED
    BY <1>1, <2>1 DEF Positive
<1>4. Tag(r).name \in tags
  BY <1>1, <1>3, Linking DEF TagNames, Tag
<1>5. /\ links \in [Keys -> SUBSET tags] /\ Key(r) \in Keys
      /\ linked \in [Keys -> SUBSET tags]
      /\ linked[Key(r)] = links[Key(r)] \cup {Tag(r).name}
      /\ \A k \in Keys : k # Key(r) => linked[k] = links[k]
  BY <1>1, <1>4, Linking, Busy DEF Types, StoreTypes
<1> HIDE DEF linked
<1>6. StoreTypes' /\ Reach(r)
  BY <1>1, <1>2, <1>5 DEF Types, StoreTypes, Reach
<1>7. CASE links' = linked /\ req' = [req EXCEPT ![r].tag = @ + 1]
  <2>1. "link" \in Steps \ Outside
    BY DEF Steps, Outside
  <2>2. Moves(r, "link", req[r].tag + 1)
    <3>1. [req[r] EXCEPT !.tag = req[r].tag + 1] =
            [req[r] EXCEPT !.tag = req[r].tag + 1, !.step = "link"]
      BY <1>1, FieldTypes, Zenon DEF Records
    <3>2. req' = [req EXCEPT ![r] = [req[r] EXCEPT !.tag = req[r].tag + 1]]
      BY <1>7 DEF Types
    <3>3. req' = [req EXCEPT ![r] = [req[r] EXCEPT !.tag = req[r].tag + 1, !.step = "link"]]
      BY <3>1, <3>2
    <3> QED
      BY <1>3, <2>1, <3>3, TagMoves
  <2>3. HadTags(r)'
    <3>1. req'[r].step = "link" /\ TagNames(r)' = TagNames(r)
      BY <2>2 DEF Moves, Alike, TagNames, Tags
    <3> QED
      BY <1>1, <3>1, Linking DEF HadTags
  <2>4. links'[Key(r)] = {Tags(r)[j].name : j \in 1..(req[r].tag + 1 - 1)}
    <3>1. links[Key(r)] = {Tags(r)[j].name : j \in 1..(req[r].tag - 1)}
      BY <1>1, Linking
    <3>2. 1..(req[r].tag + 1 - 1) = 1..(req[r].tag - 1) \cup {req[r].tag}
      BY <1>3
    <3> QED
      BY <1>5, <1>7, <3>1, <3>2 DEF Tag
  <2> QED
    BY <1>1, <1>3, <1>6, <2>1, <2>2, <2>3, <2>4, Linking, Busy, MoveStep
<1>8. CASE Fails(r) /\ Goto(r, "cleanup")
  BY <1>1, <1>2, <1>6, <1>8, CleanupAhead
<1> QED
  BY <1>7, <1>8 DEF AddToImage, linked

\* The object of a row that failed, or that lacks a tag, is deleted.
LEMMA CleanUpStep ==
  ASSUME Types, NEW r \in Requests, Sound(r), CleanUp(r)
  PROVE  Step(r)
<1>1. /\ req[r].step = "cleanup" /\ UNCHANGED <<tags, row, links, jobs, cut>>
      /\ Works(r) \/ Fails(r)
      /\ objects' = objects \/ objects' = objects \ {Key(r)}
  BY DEF CleanUp, At
<1>2. req[r].step \notin Outside /\ ~Quiet(r)
  BY <1>1 DEF Outside, Sound, At
<1>3. errors' \in 0..MaxErrors /\ \A s \in Requests : Quiet(s)' => Quiet(s)
  BY <1>1, CallsCount
<1>4. StoreTypes' /\ Reach(r)
  BY <1>1, <1>3 DEF Types, StoreTypes, Reach
<1>5. Record(r, "errors")
  BY DEF CleanUp
<1> QED
  BY <1>2, <1>3, <1>4, <1>5, Busy, ErrorStep

\* The job is published, or not.
LEMMA EnqueueStep ==
  ASSUME Types, NEW r \in Requests, Sound(r), Enqueue(r)
  PROVE  Step(r)
<1>1. /\ req[r].step = "link" /\ req[r].tag > Len(Tags(r))
      /\ UNCHANGED <<tags, row, links, objects, cut>>
      /\ Works(r) \/ Fails(r) \/ errors' = errors
      /\ jobs' = jobs \/ jobs' = jobs \cup {Key(r)}
  BY DEF Enqueue, At
<1>2. \A s \in Requests : Quiet(s)' => Quiet(s)
  BY <1>1, CallsCount
<1>3. errors' \in 0..MaxErrors
  BY <1>1, CallsCount
<1>4. StoreTypes' /\ Reach(r)
  <2>1. jobs' \subseteq Keys
    BY <1>1, Linking, Busy DEF Types, StoreTypes
  <2> QED
    BY <1>1, <1>2, <1>3, <2>1 DEF Types, StoreTypes, Reach
<1>5. /\ req[r].tag - 1 = Len(Tags(r)) /\ req[r].tag = Len(Tags(r)) + 1
      /\ DOMAIN Tags(r) = 1..Len(Tags(r))
  <2>1. /\ req[r].tag \in Nat /\ req[r].tag <= Len(Tags(r)) + 1
        /\ Len(Tags(r)) \in Nat /\ Tags(r) \in Seq(TagTexts)
    BY <1>1, Linking, Busy
  <2> QED
    BY <1>1, <2>1
<1>6. links[Key(r)] = TagNames(r)
  BY <1>1, <1>5, Linking DEF TagNames
<1>7. CASE jobs' = jobs \cup {Key(r)} /\ Record(r, "images")
  BY <1>1, <1>4, <1>6, <1>7, Linking, Busy, ImageStep
<1>8. CASE Goto(r, "markFailed")
  <2>1. "markFailed" \in Steps \ Outside
    BY DEF Steps, Outside
  <2>2. Moves(r, "markFailed", req[r].tag)
    BY <1>8, <2>1, GotoMoves
  <2>3. HadTags(r)'
    <3>1. req'[r].step = "markFailed" /\ TagNames(r)' = TagNames(r)
      BY <2>2 DEF Moves, Alike, TagNames, Tags
    <3> QED
      BY <1>1, <3>1, Linking DEF HadTags
  <2> QED
    BY <1>1, <1>4, <1>5, <2>1, <2>2, <2>3, Linking, Busy, MoveStep
<1> QED
  BY <1>7, <1>8 DEF Enqueue

\* Without a job the row is marked failed.
LEMMA MarkFailedStep ==
  ASSUME Types, NEW r \in Requests, Sound(r), MarkFailed(r)
  PROVE  Step(r)
<1> DEFINE marked == [row EXCEPT ![Key(r)] = "failed"]
<1>1. /\ req[r].step = "markFailed" /\ UNCHANGED <<tags, links, objects, jobs, cut>>
      /\ \/ Works(r) /\ row' = marked
         \/ Fails(r) /\ row' = row
      /\ Record(r, "images")
  BY DEF MarkFailed, At
<1>2. req[r].step \notin Outside
  BY <1>1 DEF Outside
<1>3. /\ errors' \in 0..MaxErrors /\ \A s \in Requests : Quiet(s)' => Quiet(s)
      /\ Fails(r) => ~Quiet(r)'
  BY <1>1, CallsCount
<1>4. /\ row \in [Keys -> {"none", "pending", "failed"}] /\ Key(r) \in Keys
      /\ marked \in [Keys -> {"none", "pending", "failed"}] /\ marked[Key(r)] = "failed"
      /\ \A k \in Keys : k # Key(r) => marked[k] = row[k]
  BY <1>2, Busy DEF Types, StoreTypes
<1> HIDE DEF marked
<1>5. StoreTypes' /\ Reach(r)
  BY <1>1, <1>3, <1>4 DEF Types, StoreTypes, Reach
<1>6. /\ Key(r) \in objects /\ row[Key(r)] # "none"
      /\ links[Key(r)] = {Tags(r)[j].name : j \in 1..(req[r].tag - 1)}
  BY <1>1 DEF Sound, AtHand
<1>7. links[Key(r)] = TagNames(r)
  <2>1. req[r].tag = Len(Tags(r)) + 1
    BY <1>1 DEF Sound, Placed, Tags
  <2>2. req[r].tag - 1 = Len(Tags(r)) /\ DOMAIN Tags(r) = 1..Len(Tags(r))
    BY <1>2, <2>1, Busy
  <2> QED
    BY <1>6, <2>2 DEF TagNames
<1> QED
  BY <1>1, <1>2, <1>3, <1>4, <1>5, <1>6, <1>7, Busy, ImageStep

\* A form comes in: it is refused as a whole, or its first file is at hand.
LEMMA ArriveStep ==
  ASSUME Types, NEW r \in Requests, Sound(r), Arrive(r)
  PROVE  Step(r)
<1>1. /\ req[r].step = "idle"
      /\ UNCHANGED <<tags, row, links, objects, jobs, cut, errors>>
  BY DEF Arrive, At, stores
<1>2. StoreTypes' /\ Reach(r)
  BY <1>1 DEF Types, StoreTypes, Reach, Quiet
<1>3. req \in [Requests -> Records] /\ req[r] \in Records
  BY DEF Types
<1>4. /\ req[r].at = 1 /\ req[r].tag = 1 /\ req[r].tags = <<>> /\ req[r].form.files = <<>>
      /\ req[r].images = {} /\ req[r].failed = {} /\ req[r].status = 0
  <2>1. /\ req[r].at = 1 /\ req[r].tag = 1 /\ req[r].tags = <<>> /\ req[r].form.files = <<>>
        /\ req[r].status = 0
    BY <1>1 DEF Sound, Placed
  <2>2. req[r].images \cup req[r].failed = 1..(1 - 1)
    BY <2>1 DEF Sound, Placed
  <2>3. 1..(1 - 1) = {}
    OBVIOUS
  <2> QED
    BY <2>1, <2>2, <2>3
<1>5. \A i \in 1..MaxFiles : Untouched(<<r, i>>)'
  <2>1. ASSUME NEW i \in 1..MaxFiles
        PROVE  Untouched(<<r, i>>)
    <3>1. i = 1 \/ i > 1
      BY UploadAssumption
    <3> QED
      BY <1>1, <1>4, <3>1 DEF Sound, AtHand, Outside
  <2> QED
    BY <1>1, <2>1 DEF Untouched
<1>6. PICK f \in Forms :
        req' = [req EXCEPT ![r] =
                  IF Parses(f)
                  THEN [req[r] EXCEPT !.form = f, !.tags = ParseTags(f.tags), !.step = "file"]
                  ELSE [req[r] EXCEPT !.step = "done", !.status = 400]]
  BY DEF Arrive
<1>7. f.files \in Seq(Files) /\ f.tags \in Seq(TagTexts)
  BY UploadAssumption
<1>8. CASE Parses(f)
  <2> DEFINE labels == ParseTags(f.tags)
           q == [req[r] EXCEPT !.form = f, !.tags = labels, !.step = "file"]
  <2>1. /\ f \in AnyForm /\ labels \in AnyTags /\ "file" \in Steps
        /\ \A j \in DOMAIN labels : ~Blank(labels[j])
        /\ NoDuplicates(labels)
    BY <1>7, ParsedTagsAreClean DEF AnyForm, AnyTags, Steps
  <2>2. req' = [req EXCEPT ![r] = q]
    BY <1>6, <1>8
  <2> HIDE DEF labels
  <2>3. q \in Records
    BY <1>3, <2>1, Zenon DEF Records
  <2>4. /\ q.form = f /\ q.tags = labels /\ q.step = "file" /\ q.at = req[r].at
        /\ q.tag = req[r].tag /\ q.images = req[r].images /\ q.failed = req[r].failed
        /\ q.status = req[r].status
    BY <1>3, Zenon DEF Records
  <2> HIDE DEF q
  <2>5. /\ req' \in [Requests -> Records] /\ req'[r] = q
        /\ \A s \in Requests \ {r} : req'[s] = req[s]
    BY <2>2, <2>3, RequestMoves
  <2>6. Placed(r)'
    <3>1. Len(f.files) \in Nat /\ Len(labels) \in Nat
      BY <1>7, <2>1 DEF AnyTags
    <3>2. 1 <= Len(f.files) + 1 /\ 1 <= Len(labels) + 1 /\ 1..(1 - 1) = {}
      BY <3>1
    <3>3. /\ req'[r].at = 1 /\ req'[r].tag = 1 /\ req'[r].form = f /\ req'[r].status = 0
          /\ req'[r].tags = labels /\ req'[r].step = "file"
          /\ req'[r].images = {} /\ req'[r].failed = {}
      BY <1>4, <2>4, <2>5
    <3> QED
      BY <3>2, <3>3 DEF Placed, Outside
  <2>7. Cleared(r)'
    BY <2>1, <2>4, <2>5 DEF Cleared, Tags, Outside
  <2>8. AtHand(r)' /\ HadTags(r)' /\ Outcomes(r)'
    BY <1>4, <1>5, <2>4, <2>5 DEF AtHand, HadTags, Outcomes
  <2>9. At(r, "cleanup")' => ~Quiet(r)'
    BY <2>4, <2>5 DEF At
  <2> QED
    BY <1>1, <1>2, <2>5, <2>6, <2>7, <2>8, <2>9 DEF Step, Sound, Types
<1>9. CASE ~Parses(f)
  <2> DEFINE code == 400
           q == [req[r] EXCEPT !.step = "done", !.status = code]
  <2>1. "done" \in Steps /\ code \in Codes
    BY DEF Steps, Codes
  <2>2. req' = [req EXCEPT ![r] = q]
    BY <1>6, <1>9
  <2> HIDE DEF code
  <2>3. q \in Records
    BY <1>3, <2>1, Zenon DEF Records
  <2>4. /\ q.form = req[r].form /\ q.tags = req[r].tags /\ q.step = "done" /\ q.at = req[r].at
        /\ q.tag = req[r].tag /\ q.images = req[r].images /\ q.failed = req[r].failed
        /\ q.status = code
    BY <1>3, Zenon DEF Records
  <2> HIDE DEF q
  <2>5. /\ req' \in [Requests -> Records] /\ req'[r] = q
        /\ \A s \in Requests \ {r} : req'[s] = req[s]
    BY <2>2, <2>3, RequestMoves
  <2>6. Placed(r)'
    <3>1. /\ req'[r].at = 1 /\ req'[r].tag = 1 /\ req'[r].form.files = <<>>
          /\ req'[r].tags = <<>> /\ req'[r].step = "done" /\ req'[r].status = 400
          /\ req'[r].images = {} /\ req'[r].failed = {}
      BY <1>4, <2>4, <2>5 DEF code
    <3>2. Len(<<>>) = 0 /\ 1..(1 - 1) = {}
      OBVIOUS
    <3> QED
      BY <3>1, <3>2 DEF Placed, Outside
  <2>7. Cleared(r)'
    BY <1>4, <2>4, <2>5 DEF Cleared, Tags, Outside, NoDuplicates
  <2>8. AtHand(r)' /\ HadTags(r)' /\ Outcomes(r)'
    BY <1>4, <1>5, <2>4, <2>5 DEF AtHand, HadTags, Outcomes
  <2>9. At(r, "cleanup")' => ~Quiet(r)'
    BY <2>4, <2>5 DEF At
  <2> QED
    BY <1>1, <1>2, <2>5, <2>6, <2>7, <2>8, <2>9 DEF Step, Sound, Types
<1> QED
  BY <1>8, <1>9

\* The answer, when every file is listed.
LEMMA RespondStep ==
  ASSUME Types, NEW r \in Requests, Sound(r), Respond(r)
  PROVE  Step(r)
<1> DEFINE q == [req[r] EXCEPT !.step = "done", !.status = Status(req[r])]
<1>1. /\ req[r].step = "file" /\ req[r].at > Len(req[r].form.files)
      /\ UNCHANGED <<tags, row, links, objects, jobs, cut, errors>>
  BY DEF Respond, At, stores
<1>2. StoreTypes' /\ Reach(r)
  BY <1>1 DEF Types, StoreTypes, Reach, Quiet
<1>3. req \in [Requests -> Records] /\ req[r] \in Records
  BY DEF Types
<1>4. "done" \in Steps /\ Status(req[r]) \in Codes
      /\ (Status(req[r]) = 201 => req[r].failed = {})
  BY DEF Steps, Codes, Status
<1>5. q \in Records
  BY <1>3, <1>4, Zenon DEF Records
<1>6. /\ q.form = req[r].form /\ q.tags = req[r].tags /\ q.step = "done" /\ q.at = req[r].at
      /\ q.tag = req[r].tag /\ q.images = req[r].images /\ q.failed = req[r].failed
      /\ q.status = Status(req[r])
  BY <1>3, Zenon DEF Records
<1>7. req' = [req EXCEPT ![r] = q]
  BY <1>3 DEF Respond
<1> HIDE DEF q
<1>8. /\ req' \in [Requests -> Records] /\ req'[r] = q
      /\ \A s \in Requests \ {r} : req'[s] = req[s]
  BY <1>5, <1>7, RequestMoves
<1>9. req[r].at = Len(req[r].form.files) + 1
  <2>1. req[r].at <= Len(req[r].form.files) + 1
    BY DEF Sound, Placed
  <2>2. req[r].at \in Nat /\ Len(req[r].form.files) \in Nat
    BY FieldTypes, UploadAssumption DEF Positive
  <2> QED
    BY <1>1, <2>1, <2>2
<1>10. Placed(r)'
  BY <1>4, <1>6, <1>8, <1>9 DEF Sound, Placed, Outside
<1>11. Cleared(r)'
  BY <1>6, <1>8 DEF Sound, Cleared, Tags, Outside
<1>12. AtHand(r)'
  <2>1. ASSUME NEW i \in 1..MaxFiles, i > req[r].at \/ i = req[r].at
        PROVE  Untouched(<<r, i>>)'
    BY <1>1, <2>1 DEF Sound, AtHand, Outside, Untouched
  <2> QED
    BY <1>6, <1>8, <2>1 DEF AtHand
<1>13. HadTags(r)'
  BY <1>6, <1>8 DEF HadTags
<1>14. Outcomes(r)'
  <2>1. Troubled(r) => Troubled(r)'
    BY <1>6, <1>8, TroubleGrows DEF Sound
  <2>2. /\ \A i \in req[r].images : IsStored(r, i)'
        /\ \A i \in req[r].failed : IsMissed(r, i)'
    BY <1>2, <1>6, <1>8, <2>1, OwnOutcomesKept
  <2> QED
    BY <1>6, <1>8, <2>2 DEF Outcomes
<1>15. At(r, "cleanup")' => ~Quiet(r)'
  BY <1>6, <1>8 DEF At
<1> QED
  BY <1>2, <1>6, <1>8, <1>10, <1>11, <1>12, <1>13, <1>14, <1>15 DEF Step, Sound, Types

\* Nothing but the lost clients, or nothing at all, has changed.
LEMMA IdleStep ==
  ASSUME UploadInv, UNCHANGED <<tags, row, links, objects, jobs, req, errors>>,
         cut' = cut \/ \E r \in Requests : cut' = cut \cup {r}
  PROVE  UploadInv'
<1>1. Types
  BY DEF UploadInv
<1>2. cut \subseteq cut' /\ cut' \subseteq Requests /\ IsFiniteSet(cut')
  BY FS_AddElement DEF UploadInv, Types, StoreTypes
<1>3. Types'
  BY <1>2 DEF UploadInv, Types, StoreTypes
<1>4. \A s \in Requests : Quiet(s)' => Quiet(s)
  BY <1>2 DEF Quiet
<1>5. \A s \in Requests : TagNames(s)' = TagNames(s) /\ (Troubled(s) => Troubled(s)')
  BY DEF TagNames, Tags, Troubled
<1>6. ASSUME NEW s \in Requests
      PROVE  Sound(s)'
  <2>1. Sound(s)
    BY DEF UploadInv
  <2> QED
    BY <1>1, <1>4, <1>5, <2>1, StaysSound
<1> QED
  BY <1>3, <1>6 DEF UploadInv

\* No request, and only the known tags.
LEMMA UploadInit == Init => UploadInv
<1> SUFFICES ASSUME Init
             PROVE  UploadInv
  OBVIOUS
<1>1. NoForm \in AnyForm /\ <<>> \in AnyTags /\ 1 \in Positive /\ {} \in Places /\ 0 \in Codes
      /\ "idle" \in Steps
  BY DEF AnyForm, AnyTags, Positive, Places, Codes, Steps
<1>2. Idle \in Records
  BY <1>1 DEF Idle, Records
<1>3. Types
  <2>1. req \in [Requests -> Records]
    BY <1>2 DEF Init
  <2>2. StoreTypes
    BY FS_EmptySet, UploadAssumption DEF Init, StoreTypes
  <2> QED
    BY <2>1, <2>2 DEF Types
<1>4. ASSUME NEW r \in Requests
      PROVE  Sound(r)
  <2>1. /\ req[r].step = "idle" /\ req[r].at = 1 /\ req[r].tag = 1 /\ req[r].tags = <<>>
        /\ req[r].form.files = <<>> /\ req[r].images = {} /\ req[r].failed = {}
        /\ req[r].status = 0
    BY DEF Init, Idle, NoForm
  <2>2. Placed(r)
    <3>1. Len(<<>>) = 0 /\ 1..(1 - 1) = {}
      OBVIOUS
    <3> QED
      BY <2>1, <3>1 DEF Placed, Outside
  <2>3. Cleared(r)
    BY <2>1 DEF Cleared, Tags, Outside, NoDuplicates
  <2>4. AtHand(r)
    <3>1. \A i \in 1..MaxFiles : Untouched(<<r, i>>)
      BY DEF Init, Untouched, Keys
    <3> QED
      BY <2>1, <3>1 DEF AtHand
  <2>5. HadTags(r) /\ Outcomes(r) /\ ~At(r, "cleanup")
    BY <2>1 DEF HadTags, Outcomes, At
  <2> QED
    BY <2>2, <2>3, <2>4, <2>5 DEF Sound
<1> QED
  BY <1>3, <1>4 DEF UploadInv

\* Every step of every request, and a lost client, keep the invariant.
LEMMA UploadNext == UploadInv /\ [Next]_vars => UploadInv'
<1> SUFFICES ASSUME UploadInv, [Next]_vars
             PROVE  UploadInv'
  OBVIOUS
<1>1. Types /\ \A s \in Requests : Sound(s)
  BY DEF UploadInv
<1>2. ASSUME NEW r \in Requests, Step(r)
      PROVE  UploadInv'
  <2>1. Types' /\ Sound(r)' /\ Reach(r) /\ \A s \in Requests \ {r} : req'[s] = req[s]
    BY <1>2 DEF Step
  <2>2. \A s \in Requests : TagNames(s) \subseteq TagNames(s)' /\ (Troubled(s) => Troubled(s)')
    BY <1>1, <1>2, TroubleGrows DEF Step, Sound
  <2>3. ASSUME NEW s \in Requests \ {r}
        PROVE  Sound(s)'
    BY <1>1, <2>1, <2>2, OthersStaySound
  <2> QED
    BY <2>1, <2>3 DEF UploadInv
<1>3. ASSUME NEW r \in Requests, Arrive(r) \/ Handle(r)
      PROVE  Step(r)
  BY <1>1, <1>3, ArriveStep, ValidateStep, StoreStep, GetByNameStep, CreateTagStep,
     BuildRowStep, InsertRowStep, AddToImageStep, CleanUpStep, EnqueueStep,
     MarkFailedStep, RespondStep
     DEF Handle
<1>4. ASSUME NEW r \in Requests, Disconnect(r)
      PROVE  UploadInv'
  BY <1>4, IdleStep DEF Disconnect, stores
<1>5. CASE UNCHANGED vars
  BY <1>5, IdleStep DEF vars, stores
<1> QED
  BY <1>2, <1>3, <1>4, <1>5 DEF Next, Finished

\* The uploads keep their invariant.
THEOREM UploadInvariance == Spec => []UploadInv
<1>1. Init => UploadInv
  BY UploadInit
<1>2. UploadInv /\ [Next]_vars => UploadInv'
  BY UploadNext
<1> QED
  BY <1>1, <1>2, PTL DEF Spec

-----------------------------------------------------------------------------
(* What the invariant says. *)

\* The stores and the requests' records have their types; an image is linked only
\* to tags that exist.
THEOREM UploadTypeCorrect == Spec => []TypeOK
<1>1. UploadInv => TypeOK
  <2> SUFFICES ASSUME UploadInv
               PROVE  TypeOK
    OBVIOUS
  <2>1. Types
    BY DEF UploadInv
  <2>2. \A k \in Keys : links[k] \subseteq tags
    BY <2>1 DEF Types, StoreTypes
  <2>3. ASSUME NEW r \in Requests
        PROVE  /\ req[r].step \in Steps /\ req[r].status \in {0, 201, 207, 400}
               /\ req[r].at \in 1..(Len(req[r].form.files) + 1)
               /\ req[r].tag \in 1..(Len(Tags(r)) + 1)
    <3>1. req[r].at <= Len(req[r].form.files) + 1 /\ req[r].tag <= Len(Tags(r)) + 1
      BY DEF UploadInv, Sound, Placed, Tags
    <3>2. /\ req[r].at \in Nat /\ req[r].at >= 1 /\ req[r].tag \in Nat /\ req[r].tag >= 1
          /\ Len(req[r].form.files) \in Nat /\ Len(Tags(r)) \in Nat
      BY <2>1, FieldTypes, UploadAssumption DEF Positive
    <3>3. req[r].step \in Steps /\ req[r].status \in {0, 201, 207, 400}
      BY <2>1, FieldTypes DEF Records, Codes
    <3> QED
      BY <3>1, <3>2, <3>3
  <2> QED
    BY <2>1, <2>2, <2>3 DEF TypeOK, Types, StoreTypes
<1> QED
  BY <1>1, UploadInvariance, PTL

\* For every number of concurrent requests, files and failed calls, the answer of
\* uploadImagesHandler is true of each file it lists.
THEOREM AnswersAreTrue == Spec => []ResponseIsTrue
<1>1. UploadInv => ResponseIsTrue
  <2> SUFFICES ASSUME UploadInv, NEW r \in Requests
               PROVE  /\ req[r].images \cap req[r].failed = {}
                      /\ req[r].images \cup req[r].failed = 1..(req[r].at - 1)
                      /\ \A i \in req[r].images :
                           /\ row[<<r, i>>] # "none" /\ <<r, i>> \in objects
                           /\ links[<<r, i>>] = TagNames(r)
                      /\ Quiet(r) => \A i \in req[r].failed : row[<<r, i>>] = "none"
                      /\ req[r].status = 201 =>
                           \A i \in DOMAIN req[r].form.files : row[<<r, i>>] # "none"
    BY DEF ResponseIsTrue
  <2>1. Types /\ Placed(r) /\ Outcomes(r)
    BY DEF UploadInv, Sound
  <2>2. /\ req[r].images \cap req[r].failed = {}
        /\ req[r].images \cup req[r].failed = 1..(req[r].at - 1)
    BY <2>1 DEF Placed
  <2>3. \A i \in req[r].images :
          /\ row[<<r, i>>] # "none" /\ <<r, i>> \in objects
          /\ links[<<r, i>>] = TagNames(r)
    BY <2>1 DEF Outcomes, IsStored
  <2>4. Quiet(r) => \A i \in req[r].failed : row[<<r, i>>] = "none"
    BY <2>1 DEF Outcomes, IsMissed
  <2>5. ASSUME req[r].status = 201
        PROVE  \A i \in DOMAIN req[r].form.files : row[<<r, i>>] # "none"
    <3>1. req[r].failed = {} /\ req[r].at = Len(req[r].form.files) + 1
      BY <2>1, <2>5 DEF Placed
    <3>2. /\ Len(req[r].form.files) \in Nat
          /\ DOMAIN req[r].form.files = 1..Len(req[r].form.files)
      BY <2>1, FieldTypes, UploadAssumption
    <3>3. req[r].at - 1 = Len(req[r].form.files)
      BY <3>1, <3>2
    <3>4. req[r].images = DOMAIN req[r].form.files
      BY <2>2, <3>1, <3>2, <3>3
    <3> QED
      BY <2>3, <3>4
  <2> QED
    BY <2>2, <2>3, <2>4, <2>5
<1> QED
  BY <1>1, UploadInvariance, PTL

\* With no call failing, CreateImage leaves an object without a row only where a
\* tag could not be had: the check after the object is stored never does it.
THEOREM OrphansHaveATag == Spec => []OrphansNeedATag
<1>1. UploadInv => OrphansNeedATag
  BY DEF UploadInv, Sound, Outcomes, IsMissed, OrphansNeedATag
<1> QED
  BY <1>1, UploadInvariance, PTL

\* With no call failing and tags that can be had, every file as a camera makes it
\* is stored: the four layers of rules agree on it, whatever it is uploaded with.
THEOREM GoodFilesGetIn == Spec => []GoodFilesAreStored
<1>1. UploadInv => GoodFilesAreStored
  BY DEF UploadInv, Sound, Outcomes, IsMissed, GoodFilesAreStored
<1> QED
  BY <1>1, UploadInvariance, PTL

\* With no call failing, a listed image has a job or says that it failed.
THEOREM NoImageWaitsForever == Spec => []NothingWaitsForever
<1>1. UploadInv => NothingWaitsForever
  BY DEF UploadInv, Sound, Outcomes, IsStored, NothingWaitsForever
<1> QED
  BY <1>1, UploadInvariance, PTL

-----------------------------------------------------------------------------
(* Lists of images. *)

\* An order of a finite set of images is a bijection.
LEMMA OrdersAreBijections ==
  ASSUME NEW M, IsFiniteSet(M), NEW s \in NewestFirst(M)
  PROVE  /\ Cardinality(M) \in Nat
         /\ s \in [1..Cardinality(M) -> M] /\ s \in Seq(M) /\ Len(s) = Cardinality(M)
         /\ \A i, j \in 1..Cardinality(M) : s[i] = s[j] => i = j
         /\ \A m \in M : \E i \in 1..Cardinality(M) : s[i] = m
         /\ \A i, j \in 1..Cardinality(M) : i < j => s[i].at >= s[j].at
<1> DEFINE n == Cardinality(M)
<1>1. n \in Nat /\ IsFiniteSet(1..n) /\ Cardinality(1..n) = n
  BY FS_CardinalityType, FS_Interval
<1>2. /\ s \in [1..n -> M]
      /\ \A i, j \in 1..n : i # j => s[i] # s[j]
      /\ \A i, j \in DOMAIN s : i < j => s[i].at >= s[j].at
  BY DEF NewestFirst, SetToSeqs
<1> HIDE DEF n
<1>3. s \in Injection(1..n, M)
  BY <1>2 DEF Injection, IsInjective
<1>4. s \in Surjection(1..n, M)
  <2>1. Cardinality(M) = n
    BY DEF n
  <2> QED BY <1>1, <1>3, <2>1, FS_Injection
<1>5. \A m \in M : \E i \in 1..n : s[i] = m
  BY <1>4 DEF Surjection
<1>6. s \in Seq(M) /\ Len(s) = n
  BY <1>1, <1>2
<1>7. DOMAIN s = 1..n
  BY <1>2
<1> QED BY <1>1, <1>2, <1>5, <1>6, <1>7 DEF n

\* LIMIT and OFFSET cut a piece out of a list.
LEMMA WindowCuts ==
  ASSUME NEW M, NEW s \in Seq(M), NEW limit \in Nat \ {0}, NEW offset \in Nat
  PROVE  LET w == Window(s, limit, offset)
             last == Least(Len(s), offset + ClampedLimit(limit))
         IN /\ w \in Seq(M) /\ last \in Nat
            /\ Len(w) = IF offset < last THEN last - offset ELSE 0
            /\ \A k \in 1..Len(w) : w[k] = s[offset + k] /\ offset + k \in 1..last
<1> DEFINE w == Window(s, limit, offset)
           last == Least(Len(s), offset + ClampedLimit(limit))
<1>1. ClampedOffset(offset) = offset /\ ClampedLimit(limit) \in Nat /\ Len(s) \in Nat
  BY ListingAssumption DEF ClampedOffset, ClampedLimit
<1>2. last \in Nat /\ last <= Len(s)
  BY <1>1 DEF Least
<1>3. w = SubSeq(s, offset + 1, last)
  BY <1>1 DEF Window
<1> HIDE DEF last, w
<1>4. \A i \in (offset + 1)..last : s[i] \in M
  BY <1>1, <1>2, ElementOfSeq
<1>5. offset + 1 \in Int /\ last \in Int
  BY <1>2
<1>6. /\ w \in Seq(M)
      /\ Len(w) = IF offset + 1 <= last THEN last - (offset + 1) + 1 ELSE 0
      /\ \A i \in 1..(last - (offset + 1) + 1) : w[i] = s[offset + 1 + i - 1]
  BY <1>3, <1>4, <1>5, SubSeqProperties
<1>7. Len(w) = IF offset < last THEN last - offset ELSE 0
  BY <1>2, <1>6
<1>8. ASSUME NEW k \in 1..Len(w)
      PROVE  w[k] = s[offset + k] /\ offset + k \in 1..last
  <2>1. k \in Nat /\ k >= 1 /\ k <= last - offset
    BY <1>2, <1>7
  <2>2. k \in 1..(last - (offset + 1) + 1) /\ offset + 1 + k - 1 = offset + k
    BY <1>2, <2>1
  <2> QED BY <1>2, <1>6, <2>1, <2>2
<1> QED BY <1>2, <1>6, <1>7, <1>8 DEF w, last

Cards == [id : Ids, at : Ids, tags : SUBSET KnownTags]

\* There are finitely many rows, and they are numbers.
LEMMA FiniteRows ==
  ASSUME NEW R \in SUBSET Ids
  PROVE  IsFiniteSet(R) /\ Cardinality(R) \in Nat /\ R \in SUBSET Nat
<1>1. Cardinality(Ids) \in Nat /\ IsFiniteSet(Ids) /\ Ids = 1..Cardinality(Ids)
  BY GalleryAssumption, FS_CardinalityType
<1>2. IsFiniteSet(R) /\ Cardinality(R) \in Nat
  BY <1>1, FS_Subset, FS_CardinalityType
<1>3. Ids \subseteq Nat
  <2> HIDE GalleryAssumption
  <2> QED BY <1>1
<1> QED BY <1>2, <1>3

\* Images of different rows are different.
LEMMA ImagesCount ==
  ASSUME NEW R \in SUBSET Ids
  PROVE  /\ IsFiniteSet(ImagesOf(R)) /\ Cardinality(ImagesOf(R)) = Cardinality(R)
         /\ ImagesOf(R) \subseteq Cards
         /\ \A m \in ImagesOf(R) : m.id \in R /\ m.at = m.id /\ m = Image(m.id)
         /\ \A i \in R : Image(i).id = i
<1> DEFINE f == [i \in R |-> Image(i)]
<1>1. f \in Bijection(R, ImagesOf(R))
  <2>1. f \in [R -> ImagesOf(R)]
    BY DEF ImagesOf
  <2>2. \A i, j \in R : f[i] = f[j] => i = j
    BY DEF Image
  <2>3. \A m \in ImagesOf(R) : \E i \in R : f[i] = m
    BY DEF ImagesOf
  <2> HIDE DEF f
  <2> QED BY <2>1, <2>2, <2>3 DEF Bijection, Injection, Surjection, IsInjective
<1>2. IsFiniteSet(ImagesOf(R)) /\ Cardinality(ImagesOf(R)) = Cardinality(R)
  <2> HIDE DEF f
  <2> QED BY <1>1, FiniteRows, FS_Bijection DEF ExistsBijection
<1>3. ImagesOf(R) \subseteq Cards
  <2>1. \A i \in R : Image(i) \in Cards
    BY GalleryAssumption DEF Image, Cards
  <2> QED BY <2>1 DEF ImagesOf
<1>4. \A m \in ImagesOf(R) : m.id \in R /\ m.at = m.id /\ m = Image(m.id)
  BY DEF ImagesOf, Image
<1>5. \A i \in R : Image(i).id = i
  BY DEF Image
<1> QED BY <1>2, <1>3, <1>4, <1>5

\* The order of some rows' images is that of their numbers, the largest first.
LEMMA NewestAreLargest ==
  ASSUME NEW R \in SUBSET Ids, NEW s \in NewestFirst(ImagesOf(R))
  PROVE  LET n == Cardinality(R) IN
         /\ n \in Nat /\ s \in Seq(ImagesOf(R)) /\ s \in Seq(Cards) /\ Len(s) = n
         /\ \A k \in 1..n : s[k].id \in R
         /\ \A j, k \in 1..n : j < k => s[j].id > s[k].id
         /\ \A i \in R : \E k \in 1..n : s[k].id = i
<1> DEFINE n == Cardinality(R)
<1>1. /\ IsFiniteSet(ImagesOf(R)) /\ Cardinality(ImagesOf(R)) = n
      /\ ImagesOf(R) \subseteq Cards /\ n \in Nat /\ R \in SUBSET Nat
  BY ImagesCount, FiniteRows
<1>2. /\ s \in [1..n -> ImagesOf(R)] /\ s \in Seq(ImagesOf(R)) /\ Len(s) = n
      /\ \A i, j \in 1..n : s[i] = s[j] => i = j
      /\ \A m \in ImagesOf(R) : \E i \in 1..n : s[i] = m
      /\ \A i, j \in 1..n : i < j => s[i].at >= s[j].at
  BY <1>1, OrdersAreBijections
<1> HIDE DEF n
<1>3. s \in Seq(Cards)
  BY <1>1, <1>2, SeqMonotonic
<1>4. \A k \in 1..n : s[k].id \in R /\ s[k].at = s[k].id /\ s[k] = Image(s[k].id)
  BY <1>2, ImagesCount
<1>5. ASSUME NEW j \in 1..n, NEW k \in 1..n, j < k
      PROVE  s[j].id > s[k].id
  <2>1. s[j].id >= s[k].id
    BY <1>2, <1>4, <1>5
  <2>2. s[j].id # s[k].id
    BY <1>1, <1>2, <1>4, <1>5
  <2>3. s[j].id \in Nat /\ s[k].id \in Nat
    BY <1>1, <1>4
  <2> QED BY <2>1, <2>2, <2>3
<1>6. ASSUME NEW i \in R
      PROVE  \E k \in 1..n : s[k].id = i
  <2>1. Image(i) \in ImagesOf(R) /\ Image(i).id = i
    BY ImagesCount DEF ImagesOf
  <2> QED BY <1>2, <2>1
<1> QED BY <1>1, <1>2, <1>3, <1>4, <1>5, <1>6 DEF n

\* A list without repetitions shows as many images as it has cards.
LEMMA CardsCount ==
  ASSUME NEW w \in Seq(Cards), \A j, k \in 1..Len(w) : w[j].id = w[k].id => j = k
  PROVE  /\ CardIds(w) = {w[k].id : k \in 1..Len(w)}
         /\ IsFiniteSet(CardIds(w)) /\ Cardinality(CardIds(w)) = Len(w)
<1> DEFINE f == [k \in 1..Len(w) |-> w[k].id]
<1>1. Len(w) \in Nat /\ DOMAIN w = 1..Len(w)
  BY LenProperties
<1>2. CardIds(w) = {w[k].id : k \in 1..Len(w)}
  BY <1>1 DEF CardIds
<1>3. f \in Bijection(1..Len(w), CardIds(w))
  <2>1. f \in [1..Len(w) -> CardIds(w)]
    BY <1>2
  <2>2. \A i, j \in 1..Len(w) : f[i] = f[j] => i = j
    OBVIOUS
  <2>3. \A m \in CardIds(w) : \E i \in 1..Len(w) : f[i] = m
    BY <1>2
  <2> HIDE DEF f
  <2> QED BY <2>1, <2>2, <2>3 DEF Bijection, Injection, Surjection, IsInjective
<1>4. IsFiniteSet(1..Len(w)) /\ Cardinality(1..Len(w)) = Len(w)
  BY <1>1, FS_Interval
<1> HIDE DEF f
<1> QED BY <1>2, <1>3, <1>4, FS_Bijection DEF ExistsBijection

\* The rows that a list with these filters is made of.
Listed(table, chosen, all) ==
  {i \in table : chosen = <<>> \/ Matches(Image(i), chosen, all)}

\* What the repository answers the handler's request with: the first of the rows in
\* their order, as many as its limit allows.
LEMMA ListsHoldRows ==
  ASSUME NEW table \in SUBSET Ids, NEW chosen \in Seq(Texts), NEW all \in BOOLEAN,
         NEW r \in List(ImagesOf(table), HandlerRequest(chosen, all))
  PROVE  LET R == Listed(table, chosen, all)
             last == Least(Cardinality(R), MaxLimit)
         IN /\ last \in Nat
            /\ r.images \in Seq(Cards) /\ Len(r.images) = last
            /\ \E s \in NewestFirst(ImagesOf(R)) :
                 \A k \in 1..last : r.images[k].id = s[k].id
<1> DEFINE R == Listed(table, chosen, all)
           last == Least(Cardinality(R), MaxLimit)
           query == HandlerRequest(chosen, all)
           Images == ImagesOf(table)
<1>1. /\ query.page = 1 /\ query.pageSize = HandlerPageSize /\ query.tags = chosen
      /\ query.matchAll = all
  BY DEF HandlerRequest, ListRequest
<1>2. r \in List(Images, query)
  OBVIOUS
<1>3. /\ HandlerPageSize \in Nat \ {0} /\ ClampedLimit(HandlerPageSize) = MaxLimit
      /\ MaxLimit \in Nat /\ GetOffset(query) = 0
  <2>1. GetOffset(query) = 0
    BY <1>1, ListingAssumption DEF GetOffset
  <2> QED BY <2>1, ListingAssumption DEF ClampedLimit
<1> HIDE DEF query
<1>4. R \in SUBSET Ids /\ Cardinality(R) \in Nat /\ last \in Nat
  <2>1. R \in SUBSET Ids
    BY DEF Listed
  <2> QED BY <1>3, <2>1, FiniteRows DEF Least
<1>5. ImagesOf(R) = IF chosen = <<>> THEN Images ELSE {m \in Images : Matches(m, chosen, all)}
  <2>1. ASSUME chosen = <<>>
        PROVE  R = table
    BY <2>1 DEF Listed
  <2>2. ASSUME chosen # <<>>
        PROVE  R = {i \in table : Matches(Image(i), chosen, all)}
    BY <2>2 DEF Listed
  <2> HIDE DEF R
  <2> QED BY <2>1, <2>2 DEF ImagesOf
<1> HIDE DEF Images
<1>6. ASSUME NEW s \in NewestFirst(ImagesOf(R)), NEW w,
             w = Window(s, HandlerPageSize, GetOffset(query))
      PROVE  /\ w \in Seq(Cards) /\ Len(w) = last
             /\ \A k \in 1..last : w[k] = s[k] /\ w[k] \in Cards
  <2>1. s \in Seq(Cards) /\ Len(s) = Cardinality(R)
    BY <1>4, NewestAreLargest
  <2> HIDE DEF R, last
  <2>2. w = Window(s, HandlerPageSize, 0)
    BY <1>3, <1>6
  <2>3. LET end == Least(Len(s), 0 + ClampedLimit(HandlerPageSize))
        IN /\ w \in Seq(Cards)
           /\ Len(w) = IF 0 < end THEN end - 0 ELSE 0
           /\ \A k \in 1..Len(w) : w[k] = s[0 + k] /\ 0 + k \in 1..end
    BY <1>3, <2>1, <2>2, WindowCuts
  <2>4. Least(Len(s), 0 + ClampedLimit(HandlerPageSize)) = last
    BY <1>3, <2>1 DEF last
  <2>5. Len(w) = last
    BY <1>4, <2>3, <2>4
  <2>6. \A k \in 1..last : w[k] = s[k]
    BY <1>4, <2>3, <2>5
  <2> QED BY <2>3, <2>5, <2>6, ElementOfSeq
<1> HIDE DEF R, last
<1>7. CASE chosen = <<>>
  <2>1. PICK s \in NewestFirst(ImagesOf(R)) : r.images = Window(s, HandlerPageSize, GetOffset(query))
    BY <1>1, <1>2, <1>5, <1>7 DEF List, GetWithTags, Response
  <2>2. /\ r.images \in Seq(Cards) /\ Len(r.images) = last
        /\ \A k \in 1..last : r.images[k] = s[k]
    BY <1>6, <2>1
  <2> QED BY <1>4, <2>2 DEF R, last
<1>8. CASE chosen # <<>>
  <2> DEFINE Bare(w) == [i \in DOMAIN w |-> [w[i] EXCEPT !.tags = {}]]
  <2>1. PICK s \in NewestFirst(ImagesOf(R)) :
          r.images = Bare(Window(s, HandlerPageSize, GetOffset(query)))
    <3>1. PICK v \in GetByTags(Images, chosen, all, HandlerPageSize, GetOffset(query)) :
            r.images = v
      BY <1>1, <1>2, <1>8 DEF List, Response
    <3>2. PICK s \in NewestFirst(ImagesOf(R)) :
            v = Bare(Window(s, HandlerPageSize, GetOffset(query)))
      <4>1. ImagesOf(R) = {m \in Images : Matches(m, chosen, all)}
        BY <1>5, <1>8
      <4>2. v \in {Bare(w) : w \in {Window(s, HandlerPageSize, GetOffset(query)) :
                                     s \in NewestFirst(ImagesOf(R))}}
        BY <3>1, <4>1 DEF GetByTags
      <4> HIDE DEF Bare
      <4> QED BY <4>2
    <3> QED BY <3>1, <3>2
  <2> DEFINE w == Window(s, HandlerPageSize, GetOffset(query))
  <2>2. /\ w \in Seq(Cards) /\ Len(w) = last
        /\ \A k \in 1..last : w[k] = s[k] /\ w[k] \in Cards
    BY <1>6
  <2> HIDE DEF w
  <2>3. r.images = Bare(w)
    BY <2>1 DEF w
  <2>4. DOMAIN w = 1..last
    BY <2>2, LenProperties
  <2>5. \A k \in 1..last : [w[k] EXCEPT !.tags = {}] \in Cards /\ [w[k] EXCEPT !.tags = {}].id = w[k].id
    BY <2>2 DEF Cards
  <2>6. r.images = [i \in 1..last |-> [w[i] EXCEPT !.tags = {}]]
    BY <2>3, <2>4
  <2>7. r.images \in Seq(Cards) /\ Len(r.images) = last
    BY <1>4, <2>5, <2>6
  <2>8. \A k \in 1..last : r.images[k].id = s[k].id
    BY <2>2, <2>5, <2>6
  <2> QED BY <1>4, <2>7, <2>8 DEF R, last
<1> QED BY <1>7, <1>8

\* As many different tags as the list of filters is long.
LEMMA FiltersCount ==
  ASSUME NEW chosen \in Seq(Texts), IsInjective(chosen)
  PROVE  IsFiniteSet(ToSet(chosen)) /\ Cardinality(ToSet(chosen)) = Len(chosen)
<1>1. Len(chosen) \in Nat /\ DOMAIN chosen = 1..Len(chosen) /\ chosen \in [1..Len(chosen) -> Texts]
  BY LenProperties
<1>2. chosen \in Bijection(1..Len(chosen), ToSet(chosen))
  <2>1. chosen \in [1..Len(chosen) -> ToSet(chosen)]
    BY <1>1 DEF ToSet
  <2>2. \A m \in ToSet(chosen) : \E k \in 1..Len(chosen) : chosen[k] = m
    BY <1>1 DEF ToSet
  <2>3. \A i, j \in 1..Len(chosen) : chosen[i] = chosen[j] => i = j
    BY <1>1 DEF IsInjective
  <2> QED BY <2>1, <2>2, <2>3 DEF Bijection, Injection, Surjection, IsInjective
<1>3. IsFiniteSet(1..Len(chosen)) /\ Cardinality(1..Len(chosen)) = Len(chosen)
  BY <1>1, FS_Interval
<1> QED BY <1>2, <1>3, FS_Bijection DEF ExistsBijection

\* HAVING COUNT(DISTINCT t.name) = len(tags): as many as there are filters means
\* all of them, when none is named twice.
LEMMA CountingIsMatching ==
  ASSUME NEW T, NEW chosen \in Seq(Texts), IsInjective(chosen),
         Cardinality(T \cap ToSet(chosen)) = Len(chosen)
  PROVE  ToSet(chosen) \subseteq T
<1>1. IsFiniteSet(ToSet(chosen)) /\ Cardinality(ToSet(chosen)) = Len(chosen)
  BY FiltersCount
<1>2. T \cap ToSet(chosen) = ToSet(chosen)
  BY <1>1, FS_Subset
<1> QED BY <1>2

\* What the queries match is what the filters ask for.
LEMMA WantedIsListed ==
  ASSUME NEW table, NEW chosen \in Seq(Texts), NEW all \in BOOLEAN, IsInjective(chosen)
  PROVE  Wanted(table, chosen, all) = Listed(table, chosen, all)
<1> SUFFICES ASSUME NEW i \in table
             PROVE  Asks(chosen, all, i) <=> chosen = <<>> \/ Matches(Image(i), chosen, all)
  BY DEF Wanted, Listed
<1>1. Image(i).tags = TagsOf[i]
  BY DEF Image
<1>2. CASE chosen = <<>>
  BY <1>2 DEF Asks
<1>3. CASE chosen # <<>> /\ ~all
  BY <1>1, <1>3 DEF Asks, Matches
<1>4. CASE chosen # <<>> /\ all
  <2>1. Asks(chosen, all, i) <=> ToSet(chosen) \subseteq TagsOf[i]
    BY <1>4 DEF Asks
  <2>2. Matches(Image(i), chosen, all) <=>
          /\ TagsOf[i] \cap ToSet(chosen) # {}
          /\ Cardinality(TagsOf[i] \cap ToSet(chosen)) = Len(chosen)
    BY <1>1, <1>4 DEF Matches
  <2>3. ASSUME ToSet(chosen) \subseteq TagsOf[i]
        PROVE  /\ TagsOf[i] \cap ToSet(chosen) # {}
               /\ Cardinality(TagsOf[i] \cap ToSet(chosen)) = Len(chosen)
    <3>1. TagsOf[i] \cap ToSet(chosen) = ToSet(chosen)
      BY <2>3
    <3>2. ToSet(chosen) # {}
      <4>1. Len(chosen) \in Nat \ {0} /\ DOMAIN chosen = 1..Len(chosen)
        BY <1>4, EmptySeq, LenProperties
      <4>2. 1 \in DOMAIN chosen
        BY <4>1
      <4> QED BY <4>2 DEF ToSet
    <3> QED BY <3>1, <3>2, FiltersCount
  <2> QED BY <1>4, <2>1, <2>2, <2>3, CountingIsMatching
<1> QED BY <1>2, <1>3, <1>4

ListSet == [images : Seq(Cards), rows : SUBSET Ids, tags : Seq(Texts), matchAll : BOOLEAN]

\* A list is right for the rows and the filters it was read for, whatever the table
\* is by now.
Right(list) == IsInjective(list.tags) => NewestMatching(list)

\* Whatever rows a list is read from, it is right.
LEMMA ListsAreRight ==
  ASSUME rows \in SUBSET Ids, NEW chosen \in Seq(Texts), NEW all \in BOOLEAN,
         NEW list \in ListsRead(chosen, all)
  PROVE  /\ list \in ListSet /\ list.tags = chosen /\ list.matchAll = all
         /\ Right(list)
<1> DEFINE R == Listed(rows, chosen, all)
           n == Cardinality(R)
           last == Least(n, MaxLimit)
           shown == CardIds(list.images)
<1>1. PICK r \in List(ImagesOf(rows), HandlerRequest(chosen, all)) :
        list = [images |-> r.images, rows |-> rows, tags |-> chosen, matchAll |-> all]
  BY DEF ListsRead
<1>2. /\ list.images = r.images /\ list.rows = rows /\ list.tags = chosen
      /\ list.matchAll = all
  BY <1>1
<1>3. R \in SUBSET Ids /\ n \in Nat /\ MaxLimit \in Nat
  <2>1. R \in SUBSET Ids
    BY DEF Listed
  <2> QED BY <2>1, FiniteRows, ListingAssumption
<1>4. /\ last \in Nat /\ list.images \in Seq(Cards) /\ Len(list.images) = last
  BY <1>2, ListsHoldRows
<1>5. PICK s \in NewestFirst(ImagesOf(R)) : \A k \in 1..last : list.images[k].id = s[k].id
  BY <1>2, ListsHoldRows
<1>6. /\ \A k \in 1..n : s[k].id \in R
      /\ \A j, k \in 1..n : j < k => s[j].id > s[k].id
      /\ \A i \in R : \E k \in 1..n : s[k].id = i
  BY <1>3, NewestAreLargest
<1> HIDE DEF R, n
<1>7. last <= n /\ \A k \in 1..last : k \in 1..n
  BY <1>3, <1>4 DEF Least
<1>8. R \in SUBSET Nat
  BY <1>3, FiniteRows
<1>9. shown = {list.images[k].id : k \in 1..last} /\ Cardinality(shown) = last
  <2>1. ASSUME NEW j \in 1..last, NEW k \in 1..last, j # k
        PROVE  list.images[j].id # list.images[k].id
    <3>1. j \in Nat /\ k \in Nat /\ (j < k \/ k < j)
      BY <1>4, <2>1
    <3>2. s[j].id \in Nat /\ s[k].id \in Nat
      BY <1>6, <1>7, <1>8
    <3>3. s[j].id > s[k].id \/ s[k].id > s[j].id
      BY <1>6, <1>7, <3>1
    <3> QED BY <1>5, <3>2, <3>3
  <2> HIDE DEF last
  <2> QED BY <1>4, <2>1, CardsCount
<1>10. shown \subseteq R
  BY <1>5, <1>6, <1>7, <1>9
<1>11. ASSUME NEW i \in shown, NEW j \in R \ shown
       PROVE  i > j
  <2>1. PICK k \in 1..last : i = s[k].id
    BY <1>5, <1>9
  <2>2. PICK m \in 1..n : j = s[m].id
    BY <1>6
  <2>3. m \notin 1..last
    BY <1>5, <1>9, <2>2
  <2>4. k < m
    BY <1>3, <1>4, <2>1, <2>2, <2>3
  <2> QED BY <1>6, <1>7, <2>1, <2>2, <2>4
<1>12. last = Least(MaxLimit, n)
  BY <1>3 DEF Least
<1>13. getImagesFromService(list).total_count = last
  BY <1>4 DEF getImagesFromService
<1>14. list \in ListSet
  BY <1>1, <1>2, <1>4 DEF ListSet
<1>15. ASSUME IsInjective(chosen)
       PROVE  Wanted(list.rows, list.tags, list.matchAll) = R
  BY <1>2, <1>15, WantedIsListed DEF R
<1>16. ASSUME IsInjective(chosen)
       PROVE  NewestMatching(list)
  <2> HIDE DEF shown, last
  <2>1. Cardinality(R) = n
    BY DEF n
  <2> QED BY <1>9, <1>10, <1>11, <1>12, <1>13, <1>15, <1>16, <2>1 DEF NewestMatching, shown
<1> QED BY <1>2, <1>14, <1>16 DEF Right

-----------------------------------------------------------------------------
(* Pages. *)

Rank(i) == Cardinality({j \in rows : j >= i})

\* A row's place in the order is the number of rows that are not older.
LEMMA PlaceIsRank ==
  ASSUME rows \in SUBSET Ids, NEW s \in NewestFirst(ImagesOf(rows)),
         NEW k \in 1..Cardinality(rows)
  PROVE  Rank(s[k].id) = k
<1> DEFINE n == Cardinality(rows)
           w == SubSeq(s, 1, k)
           newer == {j \in rows : j >= s[k].id}
<1>1. /\ n \in Nat /\ s \in Seq(Cards) /\ Len(s) = n
      /\ \A m \in 1..n : s[m].id \in rows
      /\ \A j, m \in 1..n : j < m => s[j].id > s[m].id
      /\ \A i \in rows : \E m \in 1..n : s[m].id = i
  BY NewestAreLargest
<1>2. rows \in SUBSET Nat
  BY FiniteRows
<1>3. k \in 1..n
  OBVIOUS
<1> HIDE DEF n
<1>4. \A m \in 1..n : s[m].id \in Nat /\ (s[m].id >= s[k].id <=> m <= k)
  <2> SUFFICES ASSUME NEW m \in 1..n
               PROVE  s[m].id \in Nat /\ (s[m].id >= s[k].id <=> m <= k)
    OBVIOUS
  <2>1. s[m].id \in Nat /\ s[k].id \in Nat /\ m \in Nat /\ k \in Nat
    <3>1. n \in Nat /\ m \in 1..n /\ k \in 1..n
      BY <1>1, <1>3
    <3>2. s[m].id \in rows /\ s[k].id \in rows
      BY <1>1, <1>3
    <3>3. m \in Nat /\ k \in Nat
      BY <3>1
    <3> QED BY <1>2, <3>2, <3>3
  <2>2. m < k => s[m].id > s[k].id
    BY <1>1, <1>3
  <2>3. k < m => s[k].id > s[m].id
    BY <1>1, <1>3
  <2>4. m = k => s[k].id = s[m].id
    OBVIOUS
  <2> QED BY <2>1, <2>2, <2>3, <2>4
<1>5. w \in Seq(Cards) /\ Len(w) = k /\ \A m \in 1..k : w[m] = s[m] /\ m \in 1..n
  <2>1. 1 \in Int /\ k \in Int /\ 1 <= k /\ \A m \in 1..k : m \in 1..n /\ s[m] \in Cards
    BY <1>1, <1>3, ElementOfSeq
  <2>2. /\ w \in Seq(Cards) /\ Len(w) = IF 1 <= k THEN k - 1 + 1 ELSE 0
        /\ \A m \in 1..(k - 1 + 1) : w[m] = s[1 + m - 1]
    BY <2>1, SubSeqProperties
  <2> HIDE DEF w
  <2> QED BY <2>1, <2>2
<1> HIDE DEF w
<1>6. CardIds(w) = {w[m].id : m \in 1..k} /\ Cardinality(CardIds(w)) = k
  <2>1. \A j, m \in 1..k : w[j].id = w[m].id => j = m
    <3> SUFFICES ASSUME NEW j \in 1..k, NEW m \in 1..k, j # m
                 PROVE  w[j].id # w[m].id
      OBVIOUS
    <3>1. j \in 1..n /\ m \in 1..n /\ w[j] = s[j] /\ w[m] = s[m]
      BY <1>5
    <3>2. s[j].id \in Nat /\ s[m].id \in Nat
      BY <1>4, <3>1
    <3>3. j < m \/ m < j
      BY <1>1, <3>1
    <3> QED BY <1>1, <3>1, <3>2, <3>3
  <2> QED BY <1>5, <2>1, CardsCount
<1>7. newer = {w[m].id : m \in 1..k}
  <2>1. ASSUME NEW j \in newer
        PROVE  j \in {w[m].id : m \in 1..k}
    <3>1. PICK m \in 1..n : s[m].id = j
      BY <1>1
    <3>2. m <= k
      BY <1>4, <3>1
    <3>3. m \in 1..k
      BY <1>1, <1>3, <3>2
    <3> QED BY <1>5, <3>1, <3>3
  <2>2. ASSUME NEW m \in 1..k
        PROVE  w[m].id \in newer
    <3>1. m <= k /\ m \in 1..n /\ w[m] = s[m]
      BY <1>1, <1>3, <1>5
    <3> QED BY <1>1, <1>4, <3>1
  <2> HIDE DEF newer
  <2> QED BY <2>1, <2>2
<1> QED BY <1>6, <1>7 DEF Rank

\* A set of rows has an order.
LEMMA OrderExists ==
  ASSUME NEW R \in SUBSET Ids
  PROVE  \E s : s \in NewestFirst(ImagesOf(R))
<1> DEFINE n == Cardinality(R)
           s == [k \in 1..n |-> Image(Nth(R, n + 1 - k))]
<1>1. IsFiniteSet(R) /\ n \in Nat /\ R \in SUBSET Nat
  BY FiniteRows
<1>2. \A k \in 1..n : Nth(R, k) \in R /\ Cardinality({j \in R : j <= Nth(R, k)}) = k
  BY <1>1, NthIsThere
<1>3. ASSUME NEW j \in 1..n, NEW k \in 1..n, j < k
      PROVE  Nth(R, j) < Nth(R, k)
  <2> DEFINE UpTo(i) == {m \in R : m <= i}
  <2>1. Nth(R, j) \in Nat /\ Nth(R, k) \in Nat
    BY <1>1, <1>2
  <2>2. ASSUME Nth(R, k) <= Nth(R, j)
        PROVE  FALSE
    <3>1. UpTo(Nth(R, k)) \subseteq UpTo(Nth(R, j)) /\ UpTo(Nth(R, j)) \subseteq R
      <4>1. \A m \in R : m <= Nth(R, k) => m <= Nth(R, j)
        BY <1>1, <2>1, <2>2
      <4> QED BY <4>1
    <3>2. Cardinality(UpTo(Nth(R, k))) = k /\ Cardinality(UpTo(Nth(R, j))) = j
      BY <1>2
    <3> HIDE DEF UpTo, n
    <3>3. k <= j
      BY <1>1, <3>1, <3>2, FS_Subset
    <3> QED BY <1>1, <1>3, <3>3
  <2> QED BY <2>1, <2>2
<1> HIDE DEF n
<1>4. \A k \in 1..n : n + 1 - k \in 1..n
  BY <1>1
<1>5. \A k \in 1..n : s[k] \in ImagesOf(R) /\ s[k].at = Nth(R, n + 1 - k)
  BY <1>2, <1>4 DEF ImagesOf, Image
<1>6. ASSUME NEW j \in 1..n, NEW k \in 1..n, j < k
      PROVE  s[j].at > s[k].at
  <2>1. n + 1 - k < n + 1 - j
    BY <1>1, <1>6
  <2>2. Nth(R, n + 1 - k) < Nth(R, n + 1 - j)
    BY <1>3, <1>4, <2>1
  <2>3. Nth(R, n + 1 - k) \in Nat /\ Nth(R, n + 1 - j) \in Nat
    BY <1>1, <1>2, <1>4
  <2> HIDE DEF s
  <2> QED BY <1>5, <2>2, <2>3
<1>7. s \in [1..n -> ImagesOf(R)]
  BY <1>5
<1>8. \A k \in 1..n : s[k].at \in Nat
  BY <1>1, <1>2, <1>4, <1>5
<1> HIDE DEF s
<1>9. DOMAIN s = 1..n /\ Cardinality(ImagesOf(R)) = n
  BY <1>7, ImagesCount DEF n
<1>10. \A i, j \in 1..n : i # j => s[i] # s[j]
  <2> SUFFICES ASSUME NEW i \in 1..n, NEW j \in 1..n, i # j
               PROVE  s[i].at # s[j].at
    OBVIOUS
  <2>1. i < j \/ j < i
    BY <1>1
  <2> QED BY <1>6, <1>8, <2>1
<1>11. \A i, j \in 1..n : i < j => s[i].at >= s[j].at
  BY <1>6, <1>8
<1>12. s \in NewestFirst(ImagesOf(R))
  BY <1>7, <1>9, <1>10, <1>11 DEF NewestFirst, SetToSeqs
<1> QED BY <1>12


-----------------------------------------------------------------------------
(* Arithmetic of pages. *)

\* More pages, larger offset.
LEMMA TimesGrows ==
  ASSUME NEW a \in Nat, NEW b \in Nat, NEW m \in Nat, a <= b
  PROVE  a * m \in Nat /\ b * m \in Nat /\ a * m <= b * m
<1>1. b = a + (b - a) /\ b - a \in Nat
  OBVIOUS
<1>2. \A d \in Nat : (a + d) * m = a * m + d * m /\ d * m \in Nat /\ a * m \in Nat
  OBVIOUS
<1>3. b * m = a * m + (b - a) * m /\ (b - a) * m \in Nat /\ a * m \in Nat
  BY <1>1, <1>2
<1> DEFINE x == a * m
           y == (b - a) * m
<1> HIDE DEF x, y
<1>4. x \in Nat /\ y \in Nat => x + y \in Nat /\ x <= x + y
  OBVIOUS
<1> QED BY <1>3, <1>4 DEF x, y

\* What a quotient is, as the provers know it.
LEMMA DivisionIs ==
  ASSUME NEW a \in Nat, NEW b \in Nat \ {0}
  PROVE  a \div b \in Nat /\ (a \div b) * b <= a /\ a < (a \div b) * b + b
OBVIOUS

\* The pages of a table are as many as it takes to reach its last row.
LEMMA PagesReach ==
  ASSUME NEW n \in Nat, NEW size \in Nat \ {0}
  PROVE  CeilDiv(n, size) \in Nat /\ n <= CeilDiv(n, size) * size
<1> DEFINE c == (n + size - 1) \div size
           x == c * size
<1>1. n + size - 1 \in Nat
  OBVIOUS
<1>2. c \in Nat /\ n + size - 1 < x + size
  BY <1>1, DivisionIs
<1>3. x \in Nat
  BY <1>2
<1> HIDE DEF c, x
<1>4. n <= x
  BY <1>2, <1>3
<1> QED BY <1>2, <1>4 DEF CeilDiv, c, x

-----------------------------------------------------------------------------
(* Pages of the unfiltered list. *)

PageOf(p, size) == CHOOSE r \in List(ImagesOf(rows), ListRequest(p, size, <<>>, FALSE)) : TRUE

\* The ranks are 1..n, and each is one row's.
LEMMA RanksAreNumbers ==
  ASSUME rows \in SUBSET Ids
  PROVE  /\ Cardinality(rows) \in Nat
         /\ \A i \in rows : Rank(i) \in 1..Cardinality(rows)
         /\ \A k \in 1..Cardinality(rows) : \E i \in rows : Rank(i) = k
<1>1. PICK s : s \in NewestFirst(ImagesOf(rows))
  BY OrderExists
<1>2. /\ Cardinality(rows) \in Nat
      /\ \A k \in 1..Cardinality(rows) : s[k].id \in rows
      /\ \A i \in rows : \E k \in 1..Cardinality(rows) : s[k].id = i
  BY <1>1, NewestAreLargest
<1>3. \A k \in 1..Cardinality(rows) : Rank(s[k].id) = k
  BY <1>1, PlaceIsRank
<1> QED BY <1>2, <1>3

\* A page is the rows whose rank is past its offset, as many as the limit allows.
LEMMA PageShows ==
  ASSUME rows \in SUBSET Ids, NEW size \in 1..MaxPageSize, NEW p \in Nat \ {0}
  PROVE  LET n == Cardinality(rows)
             offset == (p - 1) * size
             last == Least(n, offset + Least(size, MaxLimit))
         IN /\ PageOf(p, size).totalPages = CeilDiv(n, size)
            /\ CardIds(PageOf(p, size).images) = {i \in rows : Rank(i) > offset /\ Rank(i) <= last}
<1> DEFINE n == Cardinality(rows)
           offset == (p - 1) * size
           last == Least(n, offset + Least(size, MaxLimit))
           query == ListRequest(p, size, <<>>, FALSE)
           r == PageOf(p, size)
<1>1. /\ query.tags = <<>> /\ query.pageSize = size /\ GetOffset(query) = offset
  BY DEF ListRequest, GetOffset
<1>2. size \in Nat \ {0} /\ MaxLimit \in Nat \ {0} /\ ClampedLimit(size) = Least(size, MaxLimit)
  BY ListingAssumption DEF ClampedLimit, Least
<1>3. offset \in Nat
  BY <1>2, TimesGrows
<1> HIDE DEF offset, query
<1>4. Cardinality(ImagesOf(rows)) = n /\ n \in Nat
  BY ImagesCount, FiniteRows
<1>5. \E x : x \in List(ImagesOf(rows), query)
  <2>1. PICK s : s \in NewestFirst(ImagesOf(rows))
    BY <1>4, OrderExists
  <2>2. Response(query, Window(s, query.pageSize, GetOffset(query)), Cardinality(ImagesOf(rows))) \in List(ImagesOf(rows), query)
    BY <1>1, <2>1 DEF List, GetWithTags
  <2> QED BY <2>2
<1>6. r \in List(ImagesOf(rows), query)
  BY <1>5 DEF PageOf, query
<1>7. PICK s \in NewestFirst(ImagesOf(rows)) :
        r = Response(query, Window(s, size, offset), Cardinality(ImagesOf(rows)))
  BY <1>1, <1>6 DEF List, GetWithTags
<1> DEFINE w == Window(s, size, offset)
<1>8. r.images = w /\ r.totalPages = CeilDiv(n, size)
  BY <1>1, <1>2, <1>4, <1>7 DEF Response
<1>9. /\ s \in Seq(Cards) /\ Len(s) = n
      /\ \A k \in 1..n : s[k].id \in rows
      /\ \A i \in rows : \E k \in 1..n : s[k].id = i
  BY <1>4, NewestAreLargest
<1>10. \A k \in 1..n : Rank(s[k].id) = k
  BY <1>4, PlaceIsRank
<1> HIDE DEF r, n
<1>11. /\ w \in Seq(Cards) /\ last \in Nat /\ last <= n
       /\ Len(w) = IF offset < last THEN last - offset ELSE 0
       /\ \A k \in 1..Len(w) : w[k] = s[offset + k] /\ offset + k \in 1..last
  <2>1. /\ w \in Seq(Cards) /\ last \in Nat
        /\ Len(w) = IF offset < last THEN last - offset ELSE 0
        /\ \A k \in 1..Len(w) : w[k] = s[offset + k] /\ offset + k \in 1..last
    <3> HIDE DEF w
    <3>1. last = Least(Len(s), offset + ClampedLimit(size))
      BY <1>2, <1>9
    <3>2. LET v == Window(s, size, offset)
              end == Least(Len(s), offset + ClampedLimit(size))
          IN /\ v \in Seq(Cards) /\ end \in Nat
             /\ Len(v) = IF offset < end THEN end - offset ELSE 0
             /\ \A k \in 1..Len(v) : v[k] = s[offset + k] /\ offset + k \in 1..end
      BY <1>2, <1>3, <1>9, WindowCuts
    <3> HIDE DEF last
    <3> QED BY <3>1, <3>2 DEF w
  <2>2. last <= n
    BY <1>2, <1>3, <1>4 DEF Least
  <2> QED BY <2>1, <2>2
<1> HIDE DEF w, last
<1>12. CardIds(w) = {w[k].id : k \in 1..Len(w)} /\ Len(w) \in Nat
  BY <1>11, LenProperties DEF CardIds
<1>13. ASSUME NEW k \in 1..Len(w)
       PROVE  w[k].id \in rows /\ Rank(w[k].id) > offset /\ Rank(w[k].id) <= last
  <2>1. w[k] = s[offset + k] /\ offset + k \in 1..n /\ offset + k <= last /\ offset + k > offset
    BY <1>3, <1>4, <1>11
  <2> QED BY <1>9, <1>10, <2>1
<1>14. ASSUME NEW i \in rows, Rank(i) > offset, Rank(i) <= last
       PROVE  \E k \in 1..Len(w) : w[k].id = i
  <2>1. PICK m \in 1..n : s[m].id = i
    BY <1>9
  <2>2. Rank(i) = m
    BY <1>10, <2>1
  <2>3. m - offset \in 1..Len(w) /\ offset + (m - offset) = m
    BY <1>3, <1>4, <1>11, <1>14, <2>2
  <2> QED BY <1>11, <2>1, <2>3
<1>15. CardIds(w) = {i \in rows : Rank(i) > offset /\ Rank(i) <= last}
  BY <1>12, <1>13, <1>14
<1> QED BY <1>8, <1>15 DEF n, offset, last, r

\* What holds of the pages for any rows.
LEMMA PagesAreRight == rows \in SUBSET Ids => PagesCover
<1> SUFFICES ASSUME rows \in SUBSET Ids, NEW size \in 1..MaxPageSize
             PROVE  LET pages == 1..PageOf(1, size).totalPages
                        Shown(p) == CardIds(PageOf(p, size).images)
                    IN /\ (UNION {Shown(p) : p \in pages} = rows)
                            <=> (size <= MaxLimit \/ Cardinality(rows) <= MaxLimit)
                       /\ \A p, q \in pages : p # q => Shown(p) \cap Shown(q) = {}
  BY DEF PagesCover, PageOf
<1> DEFINE n == Cardinality(rows)
           c == CeilDiv(n, size)
           limit == Least(size, MaxLimit)
           Offset(p) == (p - 1) * size
           Shown(p) == CardIds(PageOf(p, size).images)
<1>1. /\ n \in Nat /\ \A i \in rows : Rank(i) \in 1..n
      /\ \A k \in 1..n : \E i \in rows : Rank(i) = k
  BY RanksAreNumbers
<1>2. size \in Nat \ {0} /\ MaxLimit \in Nat \ {0} /\ limit \in Nat \ {0} /\ limit <= size
      /\ limit <= MaxLimit
  BY ListingAssumption DEF Least
<1>3. PageOf(1, size).totalPages = c
  BY PageShows
<1>4. \A p \in Nat \ {0} : Shown(p) = {i \in rows : Rank(i) > Offset(p) /\ Rank(i) <= Least(n, Offset(p) + limit)}
  BY PageShows
<1>5. \A p \in Nat \ {0} : Offset(p) \in Nat /\ Offset(p + 1) = Offset(p) + size
  <2> SUFFICES ASSUME NEW p \in Nat \ {0}
               PROVE  Offset(p) \in Nat /\ Offset(p + 1) = Offset(p) + size
    OBVIOUS
  <2>1. (p - 1) * size \in Nat
    BY <1>2, TimesGrows
  <2>2. (p + 1 - 1) * size = (p - 1) * size + size
    BY <1>2
  <2> QED BY <2>1, <2>2
<1>6. c \in Nat /\ n <= Offset(c + 1)
  <2>1. c \in Nat /\ n <= c * size /\ c + 1 - 1 = c
    BY <1>1, <1>2, PagesReach
  <2> QED BY <2>1
<1>7. \A p, q \in Nat \ {0} : p <= q => Offset(p) <= Offset(q)
  <2> SUFFICES ASSUME NEW p \in Nat \ {0}, NEW q \in Nat \ {0}, p <= q
               PROVE  Offset(p) <= Offset(q)
    OBVIOUS
  <2>1. p - 1 \in Nat /\ q - 1 \in Nat /\ p - 1 <= q - 1 /\ size \in Nat
    BY <1>2
  <2> QED BY <2>1, TimesGrows
<1>8. Offset(1) = 0
  BY <1>2
<1>9. \A k \in 1..n : \E p \in 1..c : Offset(p) < k /\ k <= Offset(p + 1)
  <2> SUFFICES ASSUME NEW k \in 1..n
               PROVE  \E p \in 1..c : Offset(p) < k /\ k <= Offset(p + 1)
    OBVIOUS
  <2> DEFINE d == (k - 1) \div size
             x == d * size
  <2>1. k - 1 \in Nat
    BY <1>1
  <2>2. d \in Nat /\ x <= k - 1 /\ k - 1 < x + size
    BY <1>2, <2>1, DivisionIs
  <2>3. Offset(d + 1) = x
    BY <2>2
  <2>4. d + 1 \in Nat \ {0}
    BY <2>2
  <2> HIDE DEF d, x, Offset
  <2>5. Offset(d + 1) < k /\ k <= Offset(d + 1 + 1)
    BY <1>2, <1>5, <2>1, <2>2, <2>3, <2>4
  <2>6. d + 1 <= c
    <3> SUFFICES ASSUME c + 1 <= d + 1
                 PROVE  FALSE
      BY <1>6, <2>2
    <3>1. Offset(c + 1) <= Offset(d + 1)
      BY <1>6, <1>7, <2>4
    <3> HIDE DEF c
    <3> QED BY <1>1, <1>5, <1>6, <2>4, <2>5, <3>1
  <2> QED BY <1>6, <2>2, <2>5, <2>6
<1> HIDE DEF n, c, limit, Offset, Shown
<1>10. \A p \in 1..c : p \in Nat \ {0}
  BY <1>6
<1>11. \A p, q \in 1..c : p # q => Shown(p) \cap Shown(q) = {}
  <2>1. ASSUME NEW p \in 1..c, NEW q \in 1..c, p < q
        PROVE  Shown(p) \cap Shown(q) = {}
    <3>1. p \in Nat \ {0} /\ q \in Nat \ {0} /\ p + 1 \in Nat \ {0} /\ p + 1 <= q
      BY <1>6, <2>1
    <3>2. Offset(p) + size <= Offset(q) /\ Offset(p) \in Nat /\ Offset(q) \in Nat
      BY <1>5, <1>7, <3>1
    <3>3. Least(n, Offset(p) + limit) <= Offset(q)
      BY <1>1, <1>2, <3>2 DEF Least
    <3>4. Least(n, Offset(p) + limit) \in Nat
      BY <1>1, <1>2, <3>2 DEF Least
    <3>5. \A i \in rows : ~(Rank(i) <= Least(n, Offset(p) + limit) /\ Rank(i) > Offset(q))
      <4> SUFFICES ASSUME NEW i \in rows
                   PROVE  ~(Rank(i) <= Least(n, Offset(p) + limit) /\ Rank(i) > Offset(q))
        OBVIOUS
      <4>1. Rank(i) \in Nat
        BY <1>1
      <4> QED BY <3>2, <3>3, <3>4, <4>1
    <3> QED BY <1>4, <3>1, <3>5
  <2>2. \A p, q \in 1..c : p # q => p < q \/ q < p
    BY <1>6
  <2> QED BY <2>1, <2>2
<1>12. ASSUME size <= MaxLimit \/ n <= MaxLimit, NEW i \in rows
       PROVE  \E p \in 1..c : i \in Shown(p)
  <2>1. Rank(i) \in 1..n
    BY <1>1
  <2>2. PICK p \in 1..c : Offset(p) < Rank(i) /\ Rank(i) <= Offset(p + 1)
    BY <1>9, <2>1
  <2>3. Offset(p) \in Nat /\ Offset(p + 1) = Offset(p) + size
    BY <1>5, <1>10
  <2>4. CASE size <= MaxLimit
    <3>1. limit = size
      BY <1>2, <2>4 DEF limit, Least
    <3>2. Rank(i) <= Least(n, Offset(p) + limit)
      BY <1>1, <1>2, <2>1, <2>2, <2>3, <3>1 DEF Least
    <3> QED BY <1>4, <1>10, <2>2, <3>2
  <2>5. CASE n <= MaxLimit /\ ~(size <= MaxLimit)
    <3>1. limit = MaxLimit
      BY <1>2, <2>5 DEF limit, Least
    <3>2. 1 \in 1..c /\ 1 \in Nat \ {0}
      BY <1>6, <2>2
    <3>3. Rank(i) > Offset(1) /\ Rank(i) <= Least(n, Offset(1) + limit)
      BY <1>1, <1>2, <1>8, <2>1, <2>5, <3>1 DEF Least
    <3> QED BY <1>4, <3>2, <3>3
  <2> QED BY <1>12, <2>4, <2>5
<1>13. ASSUME ~(size <= MaxLimit \/ n <= MaxLimit)
       PROVE  \E i \in rows : \A p \in 1..c : i \notin Shown(p)
  <2>1. MaxLimit + 1 \in 1..n /\ MaxLimit + 1 <= size /\ limit = MaxLimit
    BY <1>1, <1>2, <1>13 DEF limit, Least
  <2>2. PICK i \in rows : Rank(i) = MaxLimit + 1
    BY <1>1, <2>1
  <2>3. ASSUME NEW p \in 1..c
        PROVE  i \notin Shown(p)
    <3>1. CASE p = 1
      <4>1. Least(n, Offset(1) + limit) <= MaxLimit
        BY <1>1, <1>2, <1>8, <2>1 DEF Least
      <4>2. ~(Rank(i) <= Least(n, Offset(1) + limit))
        BY <1>1, <1>2, <1>8, <2>1, <2>2, <4>1 DEF Least
      <4>3. p \in Nat \ {0}
        BY <1>10
      <4> QED BY <1>4, <3>1, <4>2, <4>3
    <3>2. CASE p # 1
      <4>1. 2 <= p /\ 2 \in Nat \ {0} /\ 1 \in Nat \ {0} /\ p \in Nat \ {0}
        BY <1>6, <3>2
      <4>2. Offset(2) <= Offset(p) /\ Offset(p) \in Nat /\ Offset(2) \in Nat
        BY <1>5, <1>7, <4>1
      <4>3. Offset(1 + 1) = Offset(1) + size
        BY <1>5
      <4>4. ~(Rank(i) > Offset(p))
        BY <1>2, <1>8, <2>1, <2>2, <4>2, <4>3
      <4> QED BY <1>4, <4>1, <4>4
    <3> QED BY <3>1, <3>2
  <2> QED BY <2>3
<1>14. \A p \in 1..c : Shown(p) \subseteq rows
  BY <1>4, <1>10
<1>15. (UNION {Shown(p) : p \in 1..c} = rows) <=> (size <= MaxLimit \/ n <= MaxLimit)
  BY <1>12, <1>13, <1>14
<1> QED BY <1>3, <1>11, <1>15 DEF n, c, Shown

-----------------------------------------------------------------------------
(* The page and its requests. *)

Kinds == {"load", "refresh", "reload", "upload", "delete"}
Statuses == {"sent", "read", "answered", "failed"}
RequestSet ==
  [n : Nat, kind : Kinds, tags : Seq(Texts), matchAll : BOOLEAN, id : Ids \cup {0},
   status : Statuses, list : ListSet]

\* The type invariant, with the records in full.
Typed ==
  /\ rows \in SUBSET Ids /\ next \in Nat \ {0}
  /\ filters \in Seq(Texts) /\ matchAll \in BOOLEAN
  /\ issued \in 0..MaxRequests /\ lastRefresh \in 0..issued
  /\ gallery.n \in 0..issued /\ gallery.cards \in Seq(Cards)
  /\ panel.n \in 0..issued /\ panel.tags \in Seq(Texts)
  /\ requests \in SUBSET RequestSet /\ cached \in SUBSET ListSet

\* A request has a number of its own, and its answer is not on the page yet.
Numbered ==
  \A r \in requests :
    /\ r.n \in 1..issued /\ r.n # gallery.n /\ r.n # panel.n
    /\ \A q \in requests : q.n = r.n => q = r

\* A list that answers a request is one of its filters.
Serves(list, r) ==
  /\ list.matchAll = r.matchAll
  /\ Ordinary(r.tags) /\ Ordinary(list.tags) => list.tags = r.tags

Served(r) ==
  /\ Right(r.list)
  /\ IsList(r) /\ r.status \in {"read", "answered"} => Serves(r.list, r)

\* Lists in the cache and under way to the page are right.
Answered == (\A list \in cached : Right(list)) /\ \A r \in requests : Served(r)

\* The last refresh was asked for with the filters that the page has now.
Latest ==
  /\ lastRefresh = 0 => filters = <<>>
  /\ \A r \in requests :
       r.n = lastRefresh =>
         r.kind = "refresh" /\ r.tags = filters /\ r.matchAll = (matchAll /\ filters # <<>>)

GalleryInv == Typed /\ Numbered /\ Answered /\ Latest /\ SettledPageShowsItsFilters

\* What the filters of a page ask of the cards of a list that serves them.
LEMMA CardsAreAskedFor ==
  ASSUME NEW list, Right(list), NEW chosen, NEW all, IsInjective(chosen),
         list.tags = chosen, list.matchAll = (all /\ chosen # <<>>),
         NEW k \in DOMAIN list.images
  PROVE  Asks(chosen, all, list.images[k].id)
<1>1. CardIds(list.images) \subseteq Wanted(list.rows, list.tags, list.matchAll)
  BY DEF Right, NewestMatching
<1>2. list.images[k].id \in CardIds(list.images)
  BY DEF CardIds
<1>3. Asks(chosen, all /\ chosen # <<>>, list.images[k].id)
  BY <1>1, <1>2 DEF Wanted
<1> QED BY <1>3 DEF Asks

\* The list of a request that has none yet.
LEMMA NoListIsRight == NoList \in ListSet /\ Right(NoList)
<1>1. NoList \in ListSet
  BY EmptySeq DEF NoList, ListSet
<1>2. CardIds(<<>>) = {} /\ Len(<<>>) = 0 /\ Cardinality({}) = 0
  BY EmptySeq, FS_EmptySet DEF CardIds
<1>3. Wanted({}, <<>>, FALSE) = {}
  BY DEF Wanted
<1>4. Least(MaxLimit, 0) = 0
  BY ListingAssumption DEF Least
<1>5. NoList.images = <<>> /\ NoList.rows = {} /\ NoList.tags = <<>> /\ NoList.matchAll = FALSE
  BY DEF NoList
<1>6. NewestMatching(NoList)
  <2>1. /\ CardIds(NoList.images) = {} /\ Wanted(NoList.rows, NoList.tags, NoList.matchAll) = {}
        /\ getImagesFromService(NoList).total_count = 0
    BY <1>2, <1>3, <1>5 DEF getImagesFromService
  <2> HIDE DEF NoList
  <2> QED BY <1>2, <1>4, <2>1 DEF NewestMatching
<1> QED BY <1>1, <1>6 DEF Right

\* Names of tags have no comma, and are not empty: joined they are their own parts.
LEMMA OrdinaryIsJoined ==
  ASSUME NEW chosen \in Seq(Texts), Ordinary(chosen)
  PROVE  Joined(chosen) = IF chosen = <<>> THEN <<NoText>> ELSE chosen
<1>1. ToSet(chosen) \subseteq Whole
  BY GalleryAssumption DEF Ordinary
<1> QED BY <1>1 DEF Joined

\* Keys tell lists apart when their filters are names of tags.
LEMMA KeysTellListsApart ==
  ASSUME NEW list \in ListSet, NEW r \in RequestSet, KeyOf(list) = KeyOf(r)
  PROVE  Serves(list, r)
<1>1. /\ list.tags \in Seq(Texts) /\ list.matchAll \in BOOLEAN
      /\ r.tags \in Seq(Texts) /\ r.matchAll \in BOOLEAN
  BY DEF ListSet, RequestSet
<1>2. Joined(list.tags) = Joined(r.tags) /\ list.matchAll = r.matchAll
  <2>1. \A q : KeyOf(q) = <<1, HandlerPageSize, Joined(q.tags), q.matchAll>>
    <3> TAKE q
    <3> DEFINE query == HandlerRequest(q.tags, q.matchAll)
    <3>1. /\ query.page = 1 /\ query.pageSize = HandlerPageSize /\ query.tags = q.tags
          /\ query.matchAll = q.matchAll
      BY DEF HandlerRequest, ListRequest
    <3> HIDE DEF query
    <3> QED BY <3>1 DEF KeyOf, generateListCacheKey, query
  <2>2. /\ KeyOf(list)[3] = Joined(list.tags) /\ KeyOf(list)[4] = list.matchAll
        /\ KeyOf(r)[3] = Joined(r.tags) /\ KeyOf(r)[4] = r.matchAll
    BY <2>1
  <2> QED BY <2>2
<1>3. ASSUME Ordinary(r.tags), Ordinary(list.tags)
      PROVE  list.tags = r.tags
  <2>1. \A chosen : Ordinary(chosen) => chosen # <<NoText>>
    <3> SUFFICES ASSUME Ordinary(<<NoText>>)
                 PROVE  FALSE
      OBVIOUS
    <3>1. NoText \in ToSet(<<NoText>>)
      BY DEF ToSet
    <3> QED BY <3>1, GalleryAssumption DEF Ordinary
  <2>2. /\ Joined(list.tags) = IF list.tags = <<>> THEN <<NoText>> ELSE list.tags
        /\ Joined(r.tags) = IF r.tags = <<>> THEN <<NoText>> ELSE r.tags
    BY <1>1, <1>3, OrdinaryIsJoined
  <2> QED BY <1>2, <1>3, <2>1, <2>2
<1> QED BY <1>2, <1>3 DEF Serves

\* A new request is a request, and has what it was made of.
LEMMA RequestsAreTyped ==
  ASSUME NEW n \in Nat, NEW kind \in Kinds, NEW chosen \in Seq(Texts), NEW all \in BOOLEAN,
         NEW id \in Ids \cup {0}
  PROVE  /\ NewRequest(n, kind, chosen, all, id) \in RequestSet
         /\ NewRequest(n, kind, chosen, all, id).n = n
         /\ NewRequest(n, kind, chosen, all, id).kind = kind
         /\ NewRequest(n, kind, chosen, all, id).tags = chosen
         /\ NewRequest(n, kind, chosen, all, id).matchAll = all
         /\ Served(NewRequest(n, kind, chosen, all, id))
BY NoListIsRight DEF NewRequest, RequestSet, Statuses, Served

\* The same of a request without filters.
LEMMA PlainRequests ==
  ASSUME NEW n \in Nat, NEW kind \in Kinds, NEW id \in Ids \cup {0}
  PROVE  /\ NewRequest(n, kind, <<>>, FALSE, id) \in RequestSet
         /\ NewRequest(n, kind, <<>>, FALSE, id).n = n
         /\ NewRequest(n, kind, <<>>, FALSE, id).kind = kind
         /\ Served(NewRequest(n, kind, <<>>, FALSE, id))
<1>1. <<>> \in Seq(Texts)
  BY EmptySeq
<1> QED BY <1>1, NoListIsRight DEF NewRequest, RequestSet, Statuses, Served

\* The fields of a request.
LEMMA TypedRequests ==
  ASSUME Typed, NEW r \in requests
  PROVE  /\ r \in RequestSet /\ r.n \in Nat /\ r.kind \in Kinds /\ r.tags \in Seq(Texts)
         /\ r.matchAll \in BOOLEAN /\ r.id \in Ids \cup {0} /\ r.list \in ListSet
         /\ r.status \in Statuses
BY DEF Typed, RequestSet

-----------------------------------------------------------------------------
(* The invariant. *)

\* A refresh is asked for with the filters of the page, and has a number that
\* nothing on the page has.
LEMMA RefreshKeeps ==
  ASSUME GalleryInv, Refresh, filters' \in Seq(Texts), matchAll' \in BOOLEAN,
         UNCHANGED <<db, cached, gallery, panel, url>>
  PROVE  GalleryInv'
<1> DEFINE all == matchAll' /\ filters' # <<>>
           new == NewRequest(issued + 1, "refresh", filters', all, 0)
<1>1. /\ issued \in Nat /\ issued < MaxRequests /\ issued' = issued + 1 /\ MaxRequests \in Nat
      /\ lastRefresh' = issued' /\ requests' = requests \cup {new}
  BY GalleryAssumption DEF GalleryInv, Typed, Refresh, Send
<1>2. /\ new \in RequestSet /\ new.n = issued' /\ new.kind = "refresh" /\ new.tags = filters'
      /\ new.matchAll = all /\ Served(new)
  <2>1. /\ issued + 1 \in Nat /\ issued' = issued + 1 /\ 0 \in Ids \cup {0}
        /\ "refresh" \in Kinds /\ all \in BOOLEAN
    BY <1>1 DEF Kinds
  <2> HIDE DEF all
  <2> QED BY <2>1, RequestsAreTyped
<1>3. /\ rows' = rows /\ next' = next /\ gallery' = gallery /\ panel' = panel /\ url' = url
      /\ cached' = cached
  BY DEF db
<1> HIDE DEF new
<1>4. /\ gallery.n \in 0..issued /\ panel.n \in 0..issued
      /\ \A r \in requests : r.n \in 1..issued
  BY DEF GalleryInv, Typed, Numbered
<1>5. Typed'
  <2>1. issued' \in 0..MaxRequests /\ lastRefresh' \in 0..issued'
    BY <1>1
  <2>2. gallery'.n \in 0..issued' /\ panel'.n \in 0..issued'
    BY <1>1, <1>3, <1>4
  <2>3. requests' \in SUBSET RequestSet
    BY <1>1, <1>2 DEF GalleryInv, Typed
  <2> QED BY <1>3, <2>1, <2>2, <2>3 DEF GalleryInv, Typed
<1>6. Numbered'
  <2>1. ASSUME NEW r \in requests
        PROVE  r.n \in 1..issued' /\ r.n # new.n
    BY <1>1, <1>2, <1>4
  <2>2. new.n \in 1..issued' /\ new.n # gallery.n /\ new.n # panel.n
    BY <1>1, <1>2, <1>4
  <2> QED BY <1>1, <1>3, <2>1, <2>2 DEF GalleryInv, Numbered
<1>7. Answered'
  BY <1>1, <1>2, <1>3 DEF GalleryInv, Answered
<1>8. Latest'
  <2>1. \A r \in requests : r.n # lastRefresh'
    BY <1>1, <1>4
  <2>2. lastRefresh' # 0
    BY <1>1
  <2> QED BY <1>1, <1>2, <2>1, <2>2 DEF Latest
<1>9. SettledPageShowsItsFilters'
  <2>1. panel.n # lastRefresh' /\ gallery.n # lastRefresh'
    BY <1>1, <1>4
  <2>2. gallery.n = panel.n /\ panel.tags # <<>> => panel.count = Len(gallery.cards)
    BY DEF GalleryInv, SettledPageShowsItsFilters
  <2> QED BY <1>3, <2>1, <2>2 DEF SettledPageShowsItsFilters
<1> QED BY <1>5, <1>6, <1>7, <1>8, <1>9 DEF GalleryInv

\* A request of another kind changes nothing on the page.
LEMMA OtherRequestKeeps ==
  ASSUME GalleryInv, NEW kind \in Kinds, kind # "refresh", NEW id \in Ids \cup {0},
         NEW left \in SUBSET requests,
         issued < MaxRequests, issued' = issued + 1,
         requests' = left \cup {NewRequest(issued + 1, kind, <<>>, FALSE, id)},
         UNCHANGED <<db, cached, page>>
  PROVE  GalleryInv'
<1> DEFINE new == NewRequest(issued + 1, kind, <<>>, FALSE, id)
<1>1. issued \in Nat /\ MaxRequests \in Nat
  BY GalleryAssumption DEF GalleryInv, Typed
<1>2. /\ new \in RequestSet /\ new.n = issued' /\ Served(new)
  <2>1. issued + 1 \in Nat
    BY <1>1
  <2> QED BY <2>1, PlainRequests
<1>3. /\ rows' = rows /\ next' = next /\ gallery' = gallery /\ panel' = panel /\ url' = url
      /\ cached' = cached
      /\ filters' = filters /\ matchAll' = matchAll /\ lastRefresh' = lastRefresh
  BY DEF db, page
<1>4. requests' = left \cup {new}
  OBVIOUS
<1> HIDE DEF new
<1>5. /\ gallery.n \in 0..issued /\ panel.n \in 0..issued /\ lastRefresh \in 0..issued
      /\ \A r \in requests : r.n \in 1..issued
  BY DEF GalleryInv, Typed, Numbered
<1>6. Typed'
  <2>1. issued' \in 0..MaxRequests /\ lastRefresh' \in 0..issued'
    BY <1>1, <1>3, <1>5
  <2>2. gallery'.n \in 0..issued' /\ panel'.n \in 0..issued'
    BY <1>1, <1>3, <1>5
  <2>3. requests' \in SUBSET RequestSet
    BY <1>2, <1>4 DEF GalleryInv, Typed
  <2> QED BY <1>3, <2>1, <2>2, <2>3 DEF GalleryInv, Typed
<1>7. Numbered'
  <2>1. ASSUME NEW r \in requests
        PROVE  r.n \in 1..issued' /\ r.n # new.n
    BY <1>1, <1>2, <1>5
  <2>2. new.n \in 1..issued' /\ new.n # gallery.n /\ new.n # panel.n
    BY <1>1, <1>2, <1>5
  <2> QED BY <1>3, <1>4, <2>1, <2>2 DEF GalleryInv, Numbered
<1>8. Answered'
  BY <1>2, <1>3, <1>4 DEF GalleryInv, Answered
<1>9. Latest'
  <2>1. new.n # lastRefresh
    BY <1>1, <1>2, <1>5
  <2> QED BY <1>3, <1>4, <2>1 DEF GalleryInv, Latest
<1>10. SettledPageShowsItsFilters'
  BY <1>3 DEF GalleryInv, SettledPageShowsItsFilters
<1> QED BY <1>6, <1>7, <1>8, <1>9, <1>10 DEF GalleryInv

\* The server goes on with a request; the page does not know yet.
LEMMA AnswerKeeps ==
  ASSUME GalleryInv, NEW r \in requests, NEW status \in Statuses, NEW list \in ListSet,
         Becomes(r, status, list), Right(list),
         IsList(r) /\ status \in {"read", "answered"} => Serves(list, r),
         cached' \in SUBSET ListSet, \A l \in cached' : Right(l),
         rows' \in SUBSET Ids, next' \in Nat \ {0}, UNCHANGED <<page, issued>>
  PROVE  GalleryInv'
<1> DEFINE new == [r EXCEPT !.status = status, !.list = list]
<1>1. r \in RequestSet
  BY TypedRequests DEF GalleryInv
<1>2. /\ new \in RequestSet /\ new.n = r.n /\ new.kind = r.kind /\ new.tags = r.tags
      /\ new.matchAll = r.matchAll /\ new.status = status /\ new.list = list
  BY <1>1 DEF RequestSet
<1>3. requests' = (requests \ {r}) \cup {new}
  BY DEF Becomes
<1>4. /\ gallery' = gallery /\ panel' = panel /\ url' = url /\ issued' = issued
      /\ filters' = filters /\ matchAll' = matchAll /\ lastRefresh' = lastRefresh
  BY DEF page
<1> HIDE DEF new
<1>5. Typed'
  BY <1>2, <1>3, <1>4 DEF GalleryInv, Typed
<1>6. Numbered'
  BY <1>2, <1>3, <1>4 DEF GalleryInv, Numbered
<1>7. Served(new)
  BY <1>2 DEF Served, IsList, Serves
<1>8. Answered'
  BY <1>3, <1>7 DEF GalleryInv, Answered
<1>9. Latest'
  BY <1>2, <1>3, <1>4 DEF GalleryInv, Latest
<1>10. SettledPageShowsItsFilters'
  BY <1>4 DEF GalleryInv, SettledPageShowsItsFilters
<1> QED BY <1>5, <1>6, <1>8, <1>9, <1>10 DEF GalleryInv

\* Without a request that is gone, or a list that expired, the rest holds as before.
LEMMA FewerRequests ==
  ASSUME GalleryInv, NEW left \in SUBSET requests, requests' = left,
         cached' \in SUBSET cached, UNCHANGED <<db, page, issued>>
  PROVE  GalleryInv'
<1>1. /\ rows' = rows /\ next' = next /\ gallery' = gallery /\ panel' = panel /\ url' = url
      /\ filters' = filters /\ matchAll' = matchAll /\ lastRefresh' = lastRefresh
      /\ issued' = issued
  BY DEF db, page
<1>2. Typed' /\ Numbered' /\ Answered' /\ Latest'
  BY <1>1 DEF GalleryInv, Typed, Numbered, Answered, Latest
<1>3. SettledPageShowsItsFilters'
  BY <1>1 DEF GalleryInv, SettledPageShowsItsFilters
<1> QED BY <1>2, <1>3 DEF GalleryInv

\* An answer that fills the gallery leaves the others their numbers.
LEMMA FilledKeeps ==
  ASSUME GalleryInv, NEW r \in requests, requests' = requests \ {r}, Fill(r),
         panel' = panel \/ (panel'.n = r.n /\ panel'.tags \in Seq(Texts)),
         UNCHANGED <<db, cached, filters, matchAll, issued, lastRefresh>>
  PROVE  Typed' /\ Numbered' /\ Answered' /\ Latest'
<1>1. /\ rows' = rows /\ next' = next /\ filters' = filters /\ matchAll' = matchAll
      /\ issued' = issued /\ lastRefresh' = lastRefresh
      /\ gallery'.n = r.n /\ gallery'.cards = r.list.images /\ cached' = cached
  BY DEF db, Fill, getImagesFromService
<1>2. r.n \in 0..issued /\ \A q \in requests \ {r} : q.n # r.n
  <2>1. r.n \in 1..issued /\ issued \in Nat
    BY DEF GalleryInv, Numbered, Typed
  <2>2. \A q \in requests \ {r} : q.n # r.n
    BY DEF GalleryInv, Numbered
  <2> QED BY <2>1, <2>2
<1>3. r.list.images \in Seq(Cards)
  <2>1. r.list \in ListSet
    BY TypedRequests DEF GalleryInv
  <2> QED BY <2>1 DEF ListSet
<1>4. Typed'
  BY <1>1, <1>2, <1>3 DEF GalleryInv, Typed
<1>5. Numbered'
  <2>1. ASSUME NEW q \in requests'
        PROVE  /\ q.n \in 1..issued' /\ q.n # gallery'.n /\ q.n # panel'.n
               /\ \A o \in requests' : o.n = q.n => o = q
    BY <1>1, <1>2, <2>1 DEF GalleryInv, Numbered
  <2> QED BY <2>1 DEF Numbered
<1>6. Answered' /\ Latest'
  BY <1>1 DEF GalleryInv, Answered, Latest
<1> QED BY <1>4, <1>5, <1>6

\* The answer to a refresh: it is the last one asked for, or the premises of what
\* the page promises do not hold.
LEMMA RefreshArrivalKeeps ==
  ASSUME GalleryInv, NEW r \in requests, RefreshArrives(r)
  PROVE  GalleryInv'
<1>1. /\ r.tags \in Seq(Texts) /\ r.kind = "refresh" /\ r.status = "answered"
  BY TypedRequests DEF GalleryInv, RefreshArrives, Arrived
<1>2. /\ panel'.n = r.n /\ panel'.tags = r.tags
      /\ r.tags # <<>> => panel'.matchAll = r.matchAll /\ panel'.count = Len(r.list.images)
  BY DEF RefreshArrives, NoPanel, getImagesFromService
<1>3. Typed' /\ Numbered' /\ Answered' /\ Latest'
  BY <1>1, <1>2, FilledKeeps DEF RefreshArrives
<1>4. Right(r.list) /\ Serves(r.list, r)
  BY <1>1 DEF GalleryInv, Answered, Served, IsList
<1>5. /\ filters' = filters /\ matchAll' = matchAll /\ lastRefresh' = lastRefresh
      /\ gallery'.n = r.n /\ gallery'.cards = r.list.images /\ gallery'.of = r.list.tags
      /\ url' = [tags |-> filters, matchAll |-> matchAll /\ filters # <<>>]
  BY DEF RefreshArrives, Fill, getImagesFromService
<1>6. r.n = lastRefresh => r.tags = filters /\ r.matchAll = (matchAll /\ filters # <<>>)
  BY DEF GalleryInv, Latest
<1>7. ASSUME r.n = lastRefresh, IsInjective(filters), Ordinary(filters), Ordinary(r.list.tags)
      PROVE  \A k \in DOMAIN r.list.images : Asks(filters, matchAll, r.list.images[k].id)
  <2>1. r.list.tags = filters /\ r.list.matchAll = (matchAll /\ filters # <<>>)
    BY <1>4, <1>6, <1>7 DEF Serves
  <2> QED BY <1>4, <1>7, <2>1, CardsAreAskedFor
<1>8. SettledPageShowsItsFilters'
  <2>1. (panel.n = lastRefresh =>
           /\ panel.tags = filters
           /\ filters # <<>> => panel.matchAll = matchAll
           /\ lastRefresh # 0 => url = [tags |-> filters, matchAll |-> matchAll /\ filters # <<>>])'
    <3>1. matchAll \in BOOLEAN
      BY DEF GalleryInv, Typed
    <3>2. filters # <<>> => (matchAll /\ filters # <<>>) = matchAll
      BY <3>1
    <3>3. r.n = lastRefresh =>
            panel'.tags = filters /\ (filters # <<>> => panel'.matchAll = matchAll)
      BY <1>2, <1>6, <3>2
    <3> QED BY <1>2, <1>5, <3>3
  <2>2. (gallery.n = panel.n /\ panel.tags # <<>> => panel.count = Len(gallery.cards))'
    BY <1>2, <1>5
  <2>3. (gallery.n = lastRefresh /\ IsInjective(filters)
         /\ Ordinary(filters) /\ Ordinary(gallery.of) =>
           \A k \in DOMAIN gallery.cards : Asks(filters, matchAll, gallery.cards[k].id))'
    BY <1>5, <1>7
  <2> QED BY <2>1, <2>2, <2>3 DEF SettledPageShowsItsFilters
<1> QED BY <1>3, <1>8 DEF GalleryInv

\* A list without filters is not the last refresh, nor what the panel shows.
LEMMA LoadArrivalKeeps ==
  ASSUME GalleryInv, NEW r \in requests, LoadArrives(r)
  PROVE  GalleryInv'
<1>1. Typed' /\ Numbered' /\ Answered' /\ Latest'
  <2>1. /\ requests' = requests \ {r} /\ Fill(r) /\ panel' = panel
        /\ UNCHANGED <<db, cached, filters, matchAll, issued, lastRefresh>>
    BY DEF LoadArrives
  <2>2. panel' = panel \/ (panel'.n = r.n /\ panel'.tags \in Seq(Texts))
    BY <2>1
  <2> QED BY <2>1, <2>2, FilledKeeps
<1>2. /\ filters' = filters /\ matchAll' = matchAll /\ lastRefresh' = lastRefresh
      /\ panel' = panel /\ url' = url /\ gallery'.n = r.n
  BY DEF LoadArrives, Fill
<1>3. r.n # lastRefresh /\ r.n # panel.n
  <2>1. r.kind # "refresh"
    BY DEF LoadArrives
  <2> QED BY <2>1 DEF GalleryInv, Latest, Numbered
<1>4. SettledPageShowsItsFilters'
  BY <1>2, <1>3 DEF GalleryInv, SettledPageShowsItsFilters
<1> QED BY <1>1, <1>4 DEF GalleryInv

\* The page when it opens.
LEMMA GalleryStarts == GalleryInit => GalleryInv
<1> SUFFICES ASSUME GalleryInit
             PROVE  GalleryInv
  OBVIOUS
<1>1. /\ rows \in SUBSET Ids /\ next \in Nat \ {0} /\ filters \in Seq(Texts)
      /\ matchAll \in BOOLEAN /\ MaxRequests \in Nat \ {0, 1}
  <2>1. IsFiniteSet(Stored) /\ Cardinality(Stored) \in Nat
    BY GalleryAssumption, FS_Subset, FS_CardinalityType
  <2>2. url.tags \in Seq(Texts) /\ url.matchAll \in BOOLEAN
    BY GalleryAssumption DEF GalleryInit
  <2> QED BY <2>1, <2>2, GalleryAssumption DEF GalleryInit
<1>2. /\ cached = {} /\ gallery.n = 0 /\ gallery.cards = <<>> /\ panel.n = 0 /\ panel.tags = <<>>
  BY DEF GalleryInit, NoPanel
<1>3. <<>> \in Seq(Cards) /\ <<>> \in Seq(Texts) /\ 0 \in Ids \cup {0}
  BY EmptySeq
<1>4. SettledPageShowsItsFilters
  <2>1. filters # <<>> => lastRefresh = 1
    BY DEF GalleryInit
  <2> QED BY <1>2, <2>1 DEF SettledPageShowsItsFilters
<1>5. CASE filters = <<>>
  <2> DEFINE load == NewRequest(1, "load", <<>>, FALSE, 0)
  <2>1. requests = {load} /\ issued = 1 /\ lastRefresh = 0
    BY <1>5 DEF GalleryInit
  <2>2. /\ load \in RequestSet /\ load.n = 1 /\ Served(load)
    <3>1. 1 \in Nat /\ "load" \in Kinds
      BY DEF Kinds
    <3> QED BY <1>3, <3>1, PlainRequests
  <2> HIDE DEF load
  <2>3. Typed
    BY <1>1, <1>2, <1>3, <2>1, <2>2 DEF Typed
  <2>4. Numbered /\ Answered /\ Latest
    BY <1>2, <1>5, <2>1, <2>2 DEF Numbered, Answered, Latest
  <2> QED BY <1>4, <2>3, <2>4 DEF GalleryInv
<1>6. CASE filters # <<>>
  <2> DEFINE refresh == NewRequest(1, "refresh", filters, matchAll, 0)
             load == NewRequest(2, "load", <<>>, FALSE, 0)
  <2>1. requests = {refresh, load} /\ issued = 2 /\ lastRefresh = 1
    BY <1>6 DEF GalleryInit
  <2>2. /\ load \in RequestSet /\ load.n = 2 /\ Served(load)
        /\ refresh \in RequestSet /\ refresh.n = 1 /\ Served(refresh)
        /\ refresh.kind = "refresh" /\ refresh.tags = filters /\ refresh.matchAll = matchAll
    <3>1. 1 \in Nat /\ 2 \in Nat /\ "load" \in Kinds /\ "refresh" \in Kinds
      BY DEF Kinds
    <3>2. load \in RequestSet /\ load.n = 2 /\ Served(load)
      <4> HIDE DEF refresh
      <4>1. 2 \in Nat /\ "load" \in Kinds /\ 0 \in Ids \cup {0}
        BY <1>3, <3>1
      <4>2. \A n \in Nat, kind \in Kinds, id \in Ids \cup {0} :
              /\ NewRequest(n, kind, <<>>, FALSE, id) \in RequestSet
              /\ NewRequest(n, kind, <<>>, FALSE, id).n = n
              /\ Served(NewRequest(n, kind, <<>>, FALSE, id))
        BY PlainRequests
      <4> QED BY <4>1, <4>2, Zenon
    <3>3. /\ refresh \in RequestSet /\ refresh.n = 1 /\ Served(refresh)
          /\ refresh.kind = "refresh" /\ refresh.tags = filters /\ refresh.matchAll = matchAll
      BY <1>1, <1>3, <3>1, RequestsAreTyped
    <3> QED BY <3>2, <3>3
  <2> HIDE DEF load, refresh
  <2>3. Typed
    BY <1>1, <1>2, <1>3, <2>1, <2>2 DEF Typed
  <2>4. Numbered /\ Answered /\ Latest
    BY <1>1, <1>2, <1>6, <2>1, <2>2 DEF Numbered, Answered, Latest
  <2> QED BY <1>4, <2>3, <2>4 DEF GalleryInv
<1> QED BY <1>5, <1>6

\* The steps of the server.
LEMMA ServerKeeps ==
  ASSUME GalleryInv, NEW r \in requests,
         \/ listImagesHandler(r)
         \/ uploadImagesHandler(r)
         \/ deleteImageHandler(r)
         \/ Fail(r)
  PROVE  GalleryInv'
<1>1. /\ rows \in SUBSET Ids /\ next \in Nat \ {0} /\ r \in RequestSet
      /\ r.tags \in Seq(Texts) /\ r.matchAll \in BOOLEAN /\ r.list \in ListSet
  BY TypedRequests DEF GalleryInv, Typed
<1>2. /\ cached \in SUBSET ListSet /\ \A l \in cached : Right(l)
      /\ Served(r) /\ NoList \in ListSet /\ Right(NoList)
  BY NoListIsRight DEF GalleryInv, Typed, Answered
<1>3. {"read", "answered", "failed"} \subseteq Statuses
  BY DEF Statuses
<1>4. CASE CacheHit(r)
  <2>1. PICK list \in cached : KeyOf(list) = KeyOf(r) /\ Becomes(r, "answered", list)
    BY <1>4 DEF CacheHit
  <2>2. list \in ListSet /\ Right(list) /\ Serves(list, r)
    BY <1>1, <1>2, <2>1, KeysTellListsApart
  <2>3. rows' = rows /\ next' = next /\ cached' = cached /\ UNCHANGED <<page, issued>>
    BY <1>4 DEF CacheHit, db
  <2> QED BY <1>1, <1>2, <1>3, <2>1, <2>2, <2>3, AnswerKeeps
<1>5. CASE QueryList(r)
  <2>1. PICK list \in ListsRead(r.tags, r.matchAll) : Becomes(r, "read", list)
    BY <1>5 DEF QueryList
  <2>2. list \in ListSet /\ Right(list) /\ Serves(list, r)
    BY <1>1, ListsAreRight DEF Serves
  <2>3. rows' = rows /\ next' = next /\ cached' = cached /\ UNCHANGED <<page, issued>>
    BY <1>5 DEF QueryList, db
  <2> QED BY <1>1, <1>2, <1>3, <2>1, <2>2, <2>3, AnswerKeeps
<1>6. CASE CacheList(r)
  <2>1. /\ r.status = "read" /\ Becomes(r, "answered", r.list)
        /\ rows' = rows /\ next' = next /\ UNCHANGED <<page, issued>>
    BY <1>6 DEF CacheList, db
  <2>2. Right(r.list) /\ (IsList(r) => Serves(r.list, r))
    BY <1>2, <2>1 DEF Served
  <2>3. cached' \in SUBSET ListSet /\ \A l \in cached' : Right(l)
    BY <1>1, <1>2, <1>6, <2>2 DEF CacheList
  <2> QED BY <1>1, <1>3, <2>1, <2>2, <2>3, AnswerKeeps
<1>7. ASSUME ~IsList(r) \/ Becomes(r, "failed", NoList),
             \E status \in {"answered", "failed"} : Becomes(r, status, NoList),
             cached' \in SUBSET cached, rows' \in SUBSET Ids, next' \in Nat \ {0},
             UNCHANGED <<page, issued>>
      PROVE  GalleryInv'
  <2>1. cached' \in SUBSET ListSet /\ \A l \in cached' : Right(l)
    BY <1>2, <1>7
  <2>2. CASE Becomes(r, "failed", NoList)
    BY <1>2, <1>3, <1>7, <2>1, <2>2, AnswerKeeps
  <2>3. CASE ~IsList(r)
    BY <1>2, <1>3, <1>7, <2>1, <2>3, AnswerKeeps
  <2> QED BY <1>7, <2>2, <2>3
<1>8. CASE uploadImagesHandler(r)
  <2>1. /\ r.kind = "upload" /\ next \in Ids /\ rows' = rows \cup {next} /\ next' = next + 1
        /\ UNCHANGED <<page, issued>>
    BY <1>8 DEF uploadImagesHandler
  <2>2. /\ \E status \in {"answered", "failed"} : Becomes(r, status, NoList)
        /\ cached' \in SUBSET cached
    BY <1>8 DEF uploadImagesHandler, InvalidateImageLists
  <2>3. rows' \in SUBSET Ids /\ next' \in Nat \ {0} /\ ~IsList(r)
    BY <1>1, <2>1 DEF IsList
  <2> QED BY <1>7, <2>1, <2>2, <2>3
<1>9. CASE deleteImageHandler(r)
  <2>1. /\ r.kind = "delete" /\ rows' = rows \ {r.id} /\ next' = next
        /\ UNCHANGED <<page, issued>>
    BY <1>9 DEF deleteImageHandler
  <2>2. /\ \E status \in {"answered", "failed"} : Becomes(r, status, NoList)
        /\ cached' \in SUBSET cached
    BY <1>9 DEF deleteImageHandler, InvalidateImageLists
  <2>3. rows' \in SUBSET Ids /\ next' \in Nat \ {0} /\ ~IsList(r)
    BY <1>1, <2>1 DEF IsList
  <2> QED BY <1>7, <2>1, <2>2, <2>3
<1>10. CASE Fail(r)
  <2>1. /\ rows' = rows /\ next' = next /\ Becomes(r, "failed", NoList) /\ cached' = cached
        /\ UNCHANGED <<page, issued>>
    BY <1>10 DEF Fail, db
  <2> QED BY <1>1, <1>7, <2>1
<1> QED BY <1>4, <1>5, <1>6, <1>8, <1>9, <1>10 DEF listImagesHandler

\* The steps of the user.
LEMMA UserKeeps ==
  ASSUME GalleryInv,
         \/ \E tag \in Texts : filterByTag(tag) \/ removeTagFilter(tag)
         \/ clearFilters \/ toggleMatchMode \/ Upload \/ deleteImage
  PROVE  GalleryInv'
<1>1. filters \in Seq(Texts) /\ matchAll \in BOOLEAN /\ gallery.cards \in Seq(Cards)
  BY DEF GalleryInv, Typed
<1>2. ASSUME NEW tag \in Texts, filterByTag(tag)
      PROVE  GalleryInv'
  <2>1. filters' = Append(filters, tag) /\ matchAll' = matchAll
    BY <1>2 DEF filterByTag
  <2>2. filters' \in Seq(Texts)
    BY <1>1, <2>1, AppendProperties
  <2> QED BY <1>1, <1>2, <2>1, <2>2, RefreshKeeps DEF filterByTag
<1>3. ASSUME NEW tag \in Texts, removeTagFilter(tag)
      PROVE  GalleryInv'
  <2> DEFINE S == {k \in DOMAIN filters : filters[k] # tag}
  <2>1. filters' = Pick(filters, S) /\ matchAll' = matchAll
    BY <1>3 DEF removeTagFilter
  <2>2. S \in SUBSET DOMAIN filters
    OBVIOUS
  <2> HIDE DEF S
  <2>3. filters' \in Seq(Texts)
    BY <1>1, <2>1, <2>2, PickIsFaithful
  <2> QED BY <1>1, <1>3, <2>1, <2>3, RefreshKeeps DEF removeTagFilter
<1>4. CASE clearFilters
  <2>1. filters' \in Seq(Texts) /\ matchAll' = matchAll
    BY <1>4, EmptySeq DEF clearFilters
  <2> QED BY <1>1, <1>4, <2>1, RefreshKeeps DEF clearFilters
<1>5. CASE toggleMatchMode
  <2>1. filters' = filters /\ matchAll' \in BOOLEAN
    BY <1>5 DEF toggleMatchMode
  <2> QED BY <1>1, <1>5, <2>1, RefreshKeeps DEF toggleMatchMode
<1>6. CASE Upload
  BY <1>6, OtherRequestKeeps DEF Upload, Send, Kinds
<1>7. CASE deleteImage
  <2>1. PICK i \in DOMAIN gallery.cards : Send("delete", <<>>, FALSE, gallery.cards[i].id)
    BY <1>7 DEF deleteImage
  <2>2. gallery.cards[i].id \in Ids \cup {0}
    <3>1. gallery.cards[i] \in Cards
      BY <1>1, ElementOfSeq, LenProperties
    <3> QED BY <3>1 DEF Cards
  <2> QED BY <1>7, <2>1, <2>2, OtherRequestKeeps DEF deleteImage, Send, Kinds
<1> QED BY <1>2, <1>3, <1>4, <1>5, <1>6, <1>7

\* Every step of the specification.
LEMMA GalleryKeeps == GalleryInv /\ [GalleryNext]_galleryVars => GalleryInv'
<1> SUFFICES ASSUME GalleryInv, [GalleryNext]_galleryVars
             PROVE  GalleryInv'
  OBVIOUS
<1>1. CASE UNCHANGED galleryVars
  <2>1. UNCHANGED <<db, page, issued>> /\ requests' = requests /\ cached' = cached
    BY <1>1 DEF galleryVars
  <2> QED BY <2>1, FewerRequests
<1>2. CASE \/ \E tag \in Texts : filterByTag(tag) \/ removeTagFilter(tag)
           \/ clearFilters \/ toggleMatchMode \/ Upload \/ deleteImage
  BY <1>2, UserKeeps
<1>3. ASSUME NEW r \in requests,
             \/ listImagesHandler(r)
             \/ uploadImagesHandler(r)
             \/ deleteImageHandler(r)
             \/ Fail(r)
      PROVE  GalleryInv'
  BY <1>3, ServerKeeps
<1>4. ASSUME NEW r \in requests, RefreshArrives(r)
      PROVE  GalleryInv'
  BY <1>4, RefreshArrivalKeeps
<1>5. ASSUME NEW r \in requests, LoadArrives(r)
      PROVE  GalleryInv'
  BY <1>5, LoadArrivalKeeps
<1>6. ASSUME NEW r \in requests, ChangeArrives(r)
      PROVE  GalleryInv'
  <2> DEFINE kind == IF r.kind = "upload" THEN "load" ELSE "reload"
  <2>1. /\ issued < MaxRequests /\ issued' = issued + 1 /\ UNCHANGED <<db, cached, page>>
        /\ requests' = (requests \ {r}) \cup {NewRequest(issued + 1, kind, <<>>, FALSE, 0)}
    BY <1>6 DEF ChangeArrives
  <2>2. kind \in Kinds /\ kind # "refresh"
    BY DEF Kinds
  <2> HIDE DEF kind
  <2> QED BY <2>1, <2>2, OtherRequestKeeps
<1>7. ASSUME NEW r \in requests, FailureArrives(r)
      PROVE  GalleryInv'
  BY <1>7, FewerRequests DEF FailureArrives
<1>8. ASSUME NEW list \in cached, Expire(list)
      PROVE  GalleryInv'
  BY <1>8, FewerRequests DEF Expire
<1> QED BY <1>1, <1>2, <1>3, <1>4, <1>5, <1>6, <1>7, <1>8 DEF GalleryNext

\* For every number of images, tags and requests the inductive invariant holds.
THEOREM GalleryInvariance == GallerySpec => []GalleryInv
BY GalleryStarts, GalleryKeeps, PTL DEF GallerySpec

\* The page and its requests have their types, and each request a number of its
\* own: the browser gives an answer to the request it was made for.
THEOREM GalleryTypeCorrect == GallerySpec => []GalleryTypeOK
<1>1. GalleryInv => GalleryTypeOK
  <2> SUFFICES ASSUME GalleryInv
               PROVE  GalleryTypeOK
    OBVIOUS
  <2>1. \A r \in requests :
          /\ r.kind \in {"load", "refresh", "reload", "upload", "delete"}
          /\ r.status \in {"sent", "read", "answered", "failed"}
    BY TypedRequests DEF GalleryInv, Kinds, Statuses
  <2> QED BY <2>1 DEF GalleryInv, Typed, Numbered, GalleryTypeOK
<1> QED BY <1>1, GalleryInvariance, PTL

\* For every number of overlapping requests, answered in any order: when the last
\* refresh asked for is the last one shown, the panel and the address bar are those
\* of the page's filters, and the cards are images that match them when they and the
\* list's are names of tags (the gallery script's refreshGalleryWithFilters and its
\* handlers).
THEOREM PagesShowTheirFilters == GallerySpec => []SettledPageShowsItsFilters
<1>1. GalleryInv => SettledPageShowsItsFilters
  BY DEF GalleryInv
<1> QED BY <1>1, GalleryInvariance, PTL

\* For every table, limit and number of requests, whatever lists are in the list
\* cache, and whatever changes, invalidations and expiries come between: a list that
\* answers a request holds the newest images that its filters asked for when it was
\* read, and counts them; and when its filters and the request's are names of tags,
\* they are the same, match_all with them.
THEOREM ListsAreNewestMatching == GallerySpec => []ListIsNewestMatching
<1>1. GalleryInv => ListIsNewestMatching
  BY DEF GalleryInv, Answered, Served, Serves, Right, ListIsNewestMatching, Arrived
<1> QED BY <1>1, GalleryInvariance, PTL

\* For every table and page size: the repository's pages show every image once, if
\* and only if the page size or the table is within the repository's limit.
THEOREM TablesAreCovered == GallerySpec => []PagesCover
<1>1. GalleryInv => PagesCover
  BY PagesAreRight DEF GalleryInv, Typed
<1> QED BY <1>1, GalleryInvariance, PTL

=============================================================================
