SPECIFICATION Spec
CONSTANTS
    Configs <- SafeStores
    Threads = {t1, t2}
    Clients = {c1, c2}
    Steps = {0, 1}
    MaxSaves = 3
    MaxDeletes = 1
    MaxTime = 1
    NoCheckpoint = NoCheckpoint
SYMMETRY Symmetry
CONSTRAINT FewerSavesWithExpiry
CHECK_DEADLOCK FALSE
INVARIANTS ThreadsIsolated AcknowledgedLoads AcknowledgedIsFound
