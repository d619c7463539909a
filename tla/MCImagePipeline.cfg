SPECIFICATION FairSpec
CONSTANTS
  i1 = i1
  Images = {i1}
  Content <- MCContent
  maxBytes = 10
  maxPixels = 40000000
  thumbSize = 320
  Workers = {w1, w2}
  Slots = {s1}
  MaxAttempts = 2
  MaxLen = 4
  MayOverrun = FALSE
  MaxJobs = 3
  MaxUploads = 1
  MaxFaults = 2
  MaxStops = 0
  Fallible = {"tags", "insert", "link", "enqueue", "enqueueReply", "cleanup", "markUnqueued", "request", "load", "mark", "process", "store", "complete", "hook", "deleteRow", "deleteObject"}
  MaxErrors = 2
  MaxFailures = 2
INVARIANTS RowsPointToObjects NoStrandedRow ThumbnailsShowTheirImage
PROPERTIES ReadyIsSkipped ImagesResolve
