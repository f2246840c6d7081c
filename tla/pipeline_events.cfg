SPECIFICATION Spec
CONSTANTS
  Pages = {p1, p2}
  MaxRuns = 2
  Stages = 0
  QueueSize = 2
  MaxOrphans = 1
CHECK_DEADLOCK FALSE
INVARIANTS NothingStale OnePlaceEach
 
