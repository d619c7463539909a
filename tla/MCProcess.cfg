SPECIFICATION FairSpec
CONSTANTS
  h1 = h1
  h2 = h2
  h3 = h3
  o1 = o1
  o2 = o2
  WordKB = 1048576
  Environments <- ProcessEnvironments
  Handlers = {h1, h2, h3}
  Objects = {o1, o2}
  WithRow = {o1}
  Pool = 2
  MaxInjected = 1
  MaxOutages = 1
INVARIANTS EveryExitCleansUp ConnectionsOutliveWork InjectedQueriesLeaveRoom
PROPERTIES StartsWithoutValkey ShutdownEnds
