SPECIFICATION FairSpec
CONSTANTS
    Goroutines = {g1, g2}
    NoGoroutine = NoGoroutine
    Commands = {c1, c2}
    Manifests <- ChangingManifests
    EmptyProjects = {"b"}
    OnConflict = {"refuse"}
    EarlyTimeouts = TRUE
    MaxFaults = 2
    MaxCrashes = 1
INVARIANTS TypeOK ServerHasPrefix ReconciledFromOneManifest
PROPERTY SyncCompletesUnlessShrunk
CHECK_DEADLOCK FALSE
