SPECIFICATION Spec
CONSTANTS
    Runs = {1, 2}
    Commands = {c1, c2}
    Payloads = {p1}
    MaxEvents = 2
    QueueSize = 1
    Outcomes = {"turn.completed", "turn.failed"}
    Oversized = {}
    SlowTicks = FALSE
    MaxStarts = 2
    MaxDisconnects = 1
    MaxCrashes = 1
    MaxFailures = 1
INVARIANTS
    TypeOK
    NoEventLost
    OneEventPerSequence
    StartedAtMostOnce
PROPERTIES
    KeepsReliableLog
SYMMETRY CommandSymmetry
CHECK_DEADLOCK FALSE
