SPECIFICATION ServingSpec
CONSTANTS
    Turns = {r1, r2}
    NoTurn = NoTurn
    QueueSize = 2
    MaxBreaks = 1
    Callers = {reader, bootstrap}
    Threads = {t1, t2}
    Workers = 1
    CacheSize = 1
    MaxUpdates = 1
    Files <- ShortFiles
    Missing = Missing
    FocusLines <- AnyFocus
    ContextLines <- AnyContext
    MaxSourceBytes = 10
    MaxResponseBytes = 2
    DefaultContext = 2
    MaxContext = 2
    Histories <- SmallHistories
    MaxDetailBytes = 5
    CutBytes = 1
    Canonical <- LeadsTo
    Directories <- NoFiles
    ProjectOrders <- AnyOrder
    AllowedRoots <- OneRoot
    Projects = {p, q}
    Unassigned = Unassigned
    DesktopRoots <- RootLists
    Paths <- AnyPath
    WorkingDir <- Working
    DirOrder <- InOrder
    Trees <- SomeTrees
    SkippedNames = {"vendor"}
    Changes <- SomeChanges
    MaxDiffBytes = 6
    MaxEdits = 1
INVARIANTS
    ServingTypeOK
    PreviewIsCurrent
    WindowHoldsFocus
    DetailKeepsNewest
    ProjectsAreAllowed
    OwnerIsClosest
    ResultIsWhole
PROPERTIES
    EndIsTheLastWord
    SessionComesBack
    KeepsSessionContract
    ListingReturns
CHECK_DEADLOCK FALSE
