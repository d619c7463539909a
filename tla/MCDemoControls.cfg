SPECIFICATION FairSpec
CONSTANTS
  Fields = {slow}
  Settings = {off, on}
  Off = off
  Calls = {c1, c2, c3}
  TTL = 2
  MaxStall = 1
  MaxFailures = 1
INVARIANTS StalenessIsBounded
PROPERTY OffIsSeen
