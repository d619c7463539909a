SPECIFICATION LoadFairSpec
CONSTANTS
  Size = 3
  Concurrency = 2
  HasBreaker = TRUE
  MaxArrivals = 4
  Ops = {"list", "view", "upload", "delete"}
  Foreign = {1}
  MaxTracked = 2
INVARIANTS EveryArrivalIsCounted LoadStopsWhenTripped TripIsEarned DeletesItsOwnOnce
PROPERTIES ImplementsWindow RunEnds
