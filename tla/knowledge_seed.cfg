SPECIFICATION Spec
CONSTANTS
  LastRow = 2
  BatchSize = 2
  MaxAttempts = 2
  MaxRuns = 2
  MaxCalls = 2
INVARIANTS
  PassedIsStored
  OneEntryUnlessAgain
