\* One target, removed while the vault is locked.
SPECIFICATION CfgSpec
CONSTANTS
    None = None
    Targets = {w1}
    Keys = {"v1"}
    Hosts = {"h1"}
    Kinds = {"lockedRemove", "settings"}
    MaxReqs = 2
    MaxFailures = 0
    MaxCrashes = 0
CHECK_DEADLOCK FALSE
INVARIANTS
    LockedEditsReachVault
