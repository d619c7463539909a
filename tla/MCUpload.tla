------------------------------ MODULE MCUpload ------------------------------
(* Two concurrent uploads: files and tags of every kind the rules tell apart. *)
EXTENDS Upload

CONSTANTS r1, r2

Name(length) == [length |-> length, ext |-> ".jpg", flaws |-> {}]
Photo == [name |-> Name(20), declared |-> "image/jpeg", content |-> "image/jpeg", size |-> 5000]
Undeclared == [Photo EXCEPT !.declared = ""]
Disguised == [Photo EXCEPT !.content = "text/plain"]
LongName == [Photo EXCEPT !.name = Name(250)]

Text(name, upper) == [name |-> name, upper |-> upper, legal |-> TRUE, length |-> 6]
NewTag == Text("sunset", FALSE)
OldTag == Text("nature", FALSE)
Capital == Text("Lake", TRUE)
NoText == [Text("", FALSE) EXCEPT !.length = 0]
LongTag == [Text("panorama", FALSE) EXCEPT !.length = 60]

Form(files, parts) == [bytes |-> 9000, files |-> files, tags |-> parts]
UploadForms ==
  {Form(<<Photo, Undeclared>>, <<NewTag, NoText, OldTag>>),
   Form(<<Photo, Disguised>>, <<NewTag, NewTag>>),
   Form(<<LongName>>, <<>>),
   Form(<<Photo>>, <<NewTag, Capital>>),
   Form(<<Photo>>, <<LongTag>>),
   Form(<<>>, <<>>)}
UploadKnown == {"nature"}
=============================================================================
