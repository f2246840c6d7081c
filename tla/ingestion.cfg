SPECIFICATION Spec
CONSTANTS
    Files = {f1, f2}
INVARIANTS
    IngestedIsSearchable
    IndexedAtMostOnce
    JobTellsTheTruth
PROPERTIES
    StatusMovesForward
    EveryJobEnds
