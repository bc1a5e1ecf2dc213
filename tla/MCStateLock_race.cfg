SPECIFICATION FairLockSpec
CONSTANTS
    Proc = {p1, p2, p3}
    Nobody = Nobody
    Slow = {}
    MaxFaults = 1
INVARIANT
    MutualExclusion
