SPECIFICATION FairSpec
CONSTANTS
    Goroutines = {g1, g2}
    NoGoroutine = NoGoroutine
    Commands = {c1}
    Manifests <- TwoManifests
    EmptyProjects = {"b"}
    OnConflict = {"replace"}
    EarlyTimeouts = FALSE
    MaxFaults = 0
    MaxCrashes = 1
PROPERTY SyncCompletes
CHECK_DEADLOCK FALSE
