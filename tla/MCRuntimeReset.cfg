SPECIFICATION Spec
CONSTANTS
    main = main
    other = other
    None = None
    Layers = {main, other}
    Default = main
    MaxBatches = 3
    MaxInits = 3
    MaxCrashes = 0
PROPERTIES
    InitStartsAtOne
CHECK_DEADLOCK FALSE
