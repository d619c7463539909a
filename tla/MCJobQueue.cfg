SPECIFICATION FairSpec
CONSTANTS
  Jobs = {good, bad}
  Malformed = {bad}
  Workers = {w1, w2}
  Slots = {s1}
  MaxAttempts = 2
  MaxLen = 1
  MayOverrun = FALSE
  MaxJobs = 2
  MaxFaults = 2
  MaxStops = 1
INVARIANTS NoSilentLoss AckedIsFinished SoleHandler NothingAbandoned
PROPERTIES ImplementsDelivery EveryJobSettles ShutdownCompletes
