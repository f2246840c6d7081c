SPECIFICATION Spec
CONSTANTS
  Requests = {r1, r2, r3}
  Threads = 2
  CacheSeconds = 2
  MaxTime = 3
  NoOne = NoOne
CHECK_DEADLOCK FALSE
INVARIANT
  ScoresAreCurrent
PROPERTIES
  ProtectsProviders
  EveryThreadIsFreed
