SPECIFICATION FairLockSpec
CONSTANTS
    Proc = {p1, p2, p3}
    Nobody = Nobody
    Slow = {}
    MaxFaults = 2
INVARIANTS FaultFreeExclusion NoFileLeftBehind
PROPERTY WaitsEnd
