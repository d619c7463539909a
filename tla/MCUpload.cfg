SPECIFICATION FairSpec
CONSTANTS
  r1 = r1
  r2 = r2
  Requests = {r1, r2}
  MaxFiles = 2
  MaxErrors = 1
  Forms <- UploadForms
  Known <- UploadKnown
INVARIANTS ResponseIsTrue OrphansNeedATag GoodFilesAreStored NothingWaitsForever
PROPERTY EveryRequestIsAnswered
