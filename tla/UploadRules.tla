----------------------------- MODULE UploadRules -----------------------------
(***************************************************************************)
(* What an upload must satisfy.  Four layers judge it one after the other: *)
(* the handler, the validation service, the domain request and the storage *)
(* service.  A fifth check, Image.Validate, comes when the object is       *)
(* already stored and nothing would remove it.                             *)
(*                                                                         *)
(* A file is [name, declared, content, size]: content is what its first    *)
(* bytes are the signature of.  A name is [length, ext, flaws], ext its    *)
(* extension in lower case.  A tag as written is [name, upper, legal,      *)
(* length]: name is its lower-case form without spaces around it.          *)
(***************************************************************************)
EXTENDS Selection

MB == 1024 * 1024

MaxUploadSize   == 10 * MB  \* handler: body of the request, and one file
MaxFileSize     == 50 * MB  \* validation service and domain
MaxStoredSize   == 10 * MB  \* storage: what its counting reader lets through
MaxFilenameLen  == 255
MaxTagsPerImage == 20
MaxTagLen       == 50       \* validation service
MaxTagNameLen   == 100      \* domain

SupportedContentTypes ==
  {"image/jpeg", "image/jpg", "image/png", "image/gif", "image/webp"}
ServiceContentTypes == SupportedContentTypes \cup {"image/bmp", "image/tiff"}

Jpegs == {"image/jpeg", "image/jpg"}

\* A file and a tag as they come in.  No image has the signature "image/jpg",
\* and only an empty text has no length.
Names == [length : Nat, ext : STRING, flaws : SUBSET STRING]
Files == [name : Names, declared : STRING, content : STRING \ {"image/jpg"}, size : Nat]
TagTexts == {t \in [name : STRING, upper : BOOLEAN, legal : BOOLEAN, length : Nat] :
               t.name = "" <=> t.length = 0}

\* The content types an extension may be declared with.
ExpectedTypes(ext) ==
  CASE ext \in {".jpg", ".jpeg"} -> Jpegs
    [] ext = ".png"  -> {"image/png"}
    [] ext = ".gif"  -> {"image/gif"}
    [] ext = ".webp" -> {"image/webp"}
    [] OTHER -> {}

-----------------------------------------------------------------------------
(* The handler. *)

Blank(part) == part.name = ""

\* Mutated form: repeated tags stay.
ParseTagsWithRepeats(parts) == Pick(parts, {i \in DOMAIN parts : ~Blank(parts[i])})

\* parseTags: blank parts go, of two that differ in case only the first stays,
\* and stays as it was written.
ParseTags(parts) ==
  Pick(parts, {i \in DOMAIN parts :
                 /\ ~Blank(parts[i])
                 /\ \A j \in 1..(i - 1) : parts[j].name # parts[i].name})

\* http.DetectContentType of a header with, or without, an image signature.
Sniffed(content) ==
  IF content \in SupportedContentTypes THEN content ELSE "application/octet-stream"

\* The declared type is believed; only without one are the bytes looked at.
DetectContentType(file) ==
  IF file.declared # "" THEN file.declared ELSE Sniffed(file.content)

HandlerAccepts(file) ==
  /\ file.size <= MaxUploadSize
  /\ file.declared = "" => file.size > 0
  /\ DetectContentType(file) \in SupportedContentTypes

Parses(form) ==
  /\ form.bytes <= MaxUploadSize
  /\ form.files # <<>>

CreateRequest(file, tags) ==
  [name |-> file.name, type |-> DetectContentType(file), size |-> file.size, tags |-> tags]

-----------------------------------------------------------------------------
(* The validation service, then the domain's own rules. *)

ValidateImageUpload(req) ==
  /\ "blank" \notin req.name.flaws
  /\ req.type \in ServiceContentTypes
  /\ req.size \in 1..MaxFileSize
  /\ Len(req.tags) <= MaxTagsPerImage
  /\ \A i \in DOMAIN req.tags : req.tags[i].name # "" /\ req.tags[i].length <= MaxTagLen

NameFits(name) ==
  name.length \in 1..MaxFilenameLen /\ "encoding" \notin name.flaws

NoDuplicates(tags) ==
  \A i, j \in DOMAIN tags : i # j => tags[i].name # tags[j].name

ValidateCreateImageRequest(req) ==
  /\ NameFits(req.name)
  /\ req.type \in SupportedContentTypes
  /\ req.size \in 1..MaxFileSize
  /\ Len(req.tags) <= MaxTagsPerImage
  /\ \A i \in DOMAIN req.tags : req.tags[i].length \in 1..MaxTagNameLen
  /\ NoDuplicates(req.tags)

-----------------------------------------------------------------------------
(* The storage service. *)

\* An underscore and eight digits of a hash go between base and extension.
GenerateUniqueFilename(name) == [name EXCEPT !.length = @ + 9]

\* Mutated form: the length is not looked at.
ValidateFilenameOfAnyLength(name) ==
  name.flaws \cap {"traversal", "absolute", "hidden", "script", "null"} = {}

ValidateFilename(name) ==
  /\ name.flaws \cap {"traversal", "absolute", "hidden", "script", "null"} = {}
  /\ name.length <= MaxFilenameLen

\* The first bytes are the signature of the declared type.
ValidateMagicNumber(file, type) ==
  /\ file.size >= 4
  /\ file.content = (IF type \in Jpegs THEN "image/jpeg" ELSE type)

StorageAccepts(file, req) ==
  LET name == GenerateUniqueFilename(req.name) IN
  /\ ValidateFilename(name)
  /\ req.type \in ExpectedTypes(name.ext)
  /\ req.type \in SupportedContentTypes
  /\ ValidateMagicNumber(file, req.type)
  /\ file.size <= MaxStoredSize

\* All that is checked before the object is stored.
Accepted(file, tags) ==
  LET req == CreateRequest(file, tags) IN
  /\ HandlerAccepts(file)
  /\ ValidateImageUpload(req) /\ ValidateCreateImageRequest(req)
  /\ StorageAccepts(file, req)

-----------------------------------------------------------------------------
(* Tags and the image itself. *)

ValidateTag(tag) ==
  /\ tag.length \in 1..MaxTagNameLen
  /\ ~tag.upper /\ tag.legal

\* buildImageObject: both names come from the original one.
BuildImage(req) ==
  [filename |-> GenerateUniqueFilename(req.name), original |-> req.name,
   type |-> req.type, size |-> req.size, tags |-> req.tags]

ValidateImage(img) ==
  /\ NameFits(img.filename) /\ NameFits(img.original)
  /\ img.type \in SupportedContentTypes
  /\ img.size \in 1..MaxFileSize
  /\ Len(img.tags) <= MaxTagsPerImage
  /\ \A i \in DOMAIN img.tags : ValidateTag(img.tags[i])
  /\ NoDuplicates(img.tags)

=============================================================================
