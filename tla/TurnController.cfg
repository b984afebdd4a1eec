SPECIFICATION FairSpec
CONSTANTS
    Traces = {t1, t2}
    NoTrace = NoTrace
    Items = {i1}
    LogLines = 1
    MaxReports = 2
INVARIANTS
    TypeOK
    TurnsAreFramed
    ClientsCanCatchUp
    SnapshotIsOfItsTurn
PROPERTIES
    InterruptTakesEffect
    EveryTurnEnds
    KeepsTurnContract
CHECK_DEADLOCK FALSE
