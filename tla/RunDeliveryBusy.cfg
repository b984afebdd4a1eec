SPECIFICATION FairSpec
CONSTANTS
    Runs = {1}
    Commands = {c1}
    Payloads = {p1}
    MaxEvents = 3
    QueueSize = 2
    Outcomes = {"turn.completed"}
    Oversized = {}
    SlowTicks = TRUE
    MaxStarts = 1
    MaxDisconnects = 0
    MaxCrashes = 0
    MaxFailures = 1
PROPERTIES
    EveryEmittedEventArrives
CHECK_DEADLOCK FALSE
