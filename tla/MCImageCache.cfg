SPECIFICATION FairSpec
CONSTANTS
  Images = {i1}
  Lists = {l1}
  Readers = {r1}
  Writers = {w1, w2}
  MaxWrites = 3
  MaxFailures = 1
INVARIANTS StaleHasACause
PROPERTY CacheConverges
