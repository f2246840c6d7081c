SPECIFICATION IndexSpec
CONSTANTS
    Threads = {t1}
    Global = "global"
    Uploads <- ProjectAndGlobal
    MaxRows = 2
    MaxWriters = 1
SYMMETRY ThreadSymmetry
INVARIANT HybridFindsAcked
