SPECIFICATION Spec
CONSTANTS
    Callers = {r1, r2}
    Runs = {r1, r2}
    Handlers = {r1, r2}
    NoHandler = NoHandler
    MaxCalls = 6
    MaxPrompts = 0
    Requests <- NewThreads
    EventsCap = 1
    MaxItems = 1
    Outcomes = {"ok"}
    Endings = {"stopped", "undecodable"}
INVARIANT OneCodexTurn
CHECK_DEADLOCK FALSE
