SPECIFICATION Spec
CONSTANTS
  i1 = i1
  Images = {i1}
  Content <- MCContent
  maxBytes = 10
  maxPixels = 40000000
  thumbSize = 320
  Workers = {w1}
  Slots = {s1}
  MaxAttempts = 2
  MaxLen = 3
  MayOverrun = FALSE
  MaxJobs = 2
  MaxFaults = 0
  MaxStops = 0
  Fallible = {"link"}
  MaxUploads = 1
  MaxErrors = 1
  MaxFailures = 1
INVARIANT RowsHaveTheirOriginal
