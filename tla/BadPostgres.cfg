SPECIFICATION Spec
CONSTANTS
    Configs <- PostgresByNode
    Threads = {t1, t2}
    Clients = {c1, c2}
    Steps = {0}
    MaxSaves = 2
    MaxDeletes = 0
    MaxTime = 0
    NoCheckpoint = NoCheckpoint
SYMMETRY Symmetry
CHECK_DEADLOCK FALSE
INVARIANTS ThreadsIsolated
