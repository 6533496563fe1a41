SPECIFICATION MCSpec
CONSTANTS
    Viewers = {v1, v2}
    TTL = 2
    MaxClock = 3
    MaxChanges = 2
    MaxRequests = 4
    Settings = {s1, s2}
    Slots = {1, 2}
    None = None
    MaxEdits = 1
    MaxReloads = 1
    MaxFaults = 1
    MaxLive = 1
    Begun <- Mixes
    Clients = {p1, p2}
    Warmups = {u1}
    Ranges = {"1y", "max"}
    NoRange = NoRange
    MaxInputs = 2
    MaxAsks = 4
    Currencies <- DollarsAndEuros
    LastDay = 4
    OwnDays <- OwnServes
    KrakenDays = {3, 4}
    Backups <- ThreeHistories
    MaxOutages = 1
    MaxRestores = 1
    MaxCrashes = 1
    Tiers <- ThreeTiers
    MaxTime = 9
    MaxSeeds = 1
CHECK_DEADLOCK FALSE
INVARIANTS
    AnswerFitsAsk
    AnswersFit
    ScoredOnce
    OwnBeatsPublic
    SamplesStand
PROPERTIES
    LiveStays
    
    
