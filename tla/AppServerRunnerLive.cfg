SPECIFICATION FairSpec
CONSTANTS
    Callers = {r1, c}
    Runs = {r1}
    Handlers = {r1}
    NoHandler = NoHandler
    MaxCalls = 6
    MaxPrompts = 1
    Requests <- KnownThreads
    EventsCap = 1
    MaxItems = 1
    Outcomes = {"ok"}
    Endings = {"stopped"}
PROPERTIES CallersReturn ReaderComesBack
CHECK_DEADLOCK FALSE
