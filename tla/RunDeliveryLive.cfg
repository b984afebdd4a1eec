SPECIFICATION FairSpec
CONSTANTS
    Runs = {1}
    Commands = {c1}
    Payloads = {p1}
    MaxEvents = 3
    QueueSize = 1
    Outcomes = {"turn.completed", "turn.failed"}
    Oversized = {}
    SlowTicks = TRUE
    MaxStarts = 3
    MaxDisconnects = 1
    MaxCrashes = 1
    MaxFailures = 1
INVARIANTS
    RunRecordWellFormed
PROPERTIES
    EveryRecordedEventArrives
    EveryAcceptedRunCloses
CHECK_DEADLOCK FALSE
