SPECIFICATION Spec
CONSTANTS
    Callers = {r1, r2}
    Runs = {r1, r2}
    Handlers = {r1, r2}
    NoHandler = NoHandler
    MaxCalls = 5
    MaxPrompts = 0
    Requests <- NewThreads
    EventsCap = 1
    MaxItems = 1
    Outcomes = {"ok", "interrupted", "error"}
    Endings = {"stopped", "closed", "undecodable"}
SYMMETRY RunSymmetry
INVARIANTS TypeOK CallsAreTracked NothingMissed
CHECK_DEADLOCK FALSE
