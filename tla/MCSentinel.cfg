SPECIFICATION Spec
CONSTANTS
    m1 = m1
    a1 = a1
    a2 = a2
    k1 = k1
    k2 = k2
    Monitors = {m1}
    Addrs = {a1, a2}
    Owner <- OneOwner
    MaxTip = 2
    Touches <- TwoMoves
    Sources = {"electrum", "mempool"}
    Managers = {k1, k2}
    Batch = 1
    Window = 1
    MaxFaults = 3
    MaxEdits = 1
    MaxStops = 1
    Spent <- Mixes
CHECK_DEADLOCK FALSE
INVARIANTS
    
    AlertedOnce
PROPERTIES
    OutageToldOnce
    
