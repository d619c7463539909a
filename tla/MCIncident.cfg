SPECIFICATION IncidentFairSpec
CONSTANTS
  Fields = {slow}
  Settings = {off, on}
  Off = off
  Fault = on
  Own = {p1, p2, p3, p4}
  Calls = {p1, p2, p3, p4, c1, c2}
  TTL = 1
  MaxStall = 0
  MaxFailures = 1
INVARIANTS ResetsUnlessGivenUp
PROPERTY AppRecovers
