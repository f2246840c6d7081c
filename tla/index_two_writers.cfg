SPECIFICATION IndexSpec
CONSTANTS
    Threads = {t1, t2}
    Global = "global"
    Uploads <- SharedName
    MaxRows = 2
    MaxWriters = 2
INVARIANTS
    ScopedSearch
    RowsAligned
    AckedIsDurable
    AckedInQdrant
SYMMETRY ThreadSymmetry
