SPECIFICATION MCSpec
CONSTANTS
    w1 = w1
    w2 = w2
    None = None
    Targets = {w1, w2}
    Keys = {"v1", "v2"}
    Hosts = {"h1"}
    Kinds = {"save", "remove", "lockedSave", "lockedRemove", "settings"}
    MaxReqs = 2
    MaxFailures = 1
    MaxCrashes = 1
    Gaps = {1, 2}
    Bootstrap = 3
    Limit = 6
    Standby = 2
    MaxGapFaults = 1
    MaxGapEdits = 1
    Own = {"o1", "o2"}
    Others = {"x", "y"}
    Values = {1, 2}
    MaxIns = 2
    MaxOuts = 2
    Top = 1
    Thresholds = {0, 2}
    a1 = a1
    a2 = a2
    Addrs <- TwoRows
    N = 3
    PerPage = 2
    PageSize = 2
    Limits = {0, 1, 4}
    MaxPage = 2
    MaxSilent = 1
    r1 = r1
    r2 = r2
    Requests = {r1, r2}
    Sources <- SourceLists
    Modes = {"auto", "electrum", "mempool_own", "mempool_public"}
    Electrums = {"none", "lan", "onion", "public"}
    MaxSteps = 4
SYMMETRY NameSymmetry
CHECK_DEADLOCK FALSE
INVARIANTS
    EditsKept
    SavedIsWatched
    WatchedRange
    
    OverviewExact
    RoutesRight
