SPECIFICATION Spec
CONSTANTS
    main = main
    other = other
    None = None
    Layers = {main, other}
    Default = main
    MaxBatches = 3
    MaxInits = 3
    MaxCrashes = 1
INVARIANTS
    TypeOK
    LogIsWhole
    NextBatchFits
    NothingMissing
PROPERTIES
    SyncRestoresNumber
CHECK_DEADLOCK FALSE
