SPECIFICATION EventsSpec
CONSTANTS
    Proc = {p1, p2}
    Nobody = Nobody
    Slow = {}
    MaxFaults = 0
    Sessions = {1}
    Digests = {a, b}
    NoDigest = NoDigest
    NoSession = NoSession
    NoRecord = NoRecord
    MaxNudges = 3
    Retained = 2
    MaxEvents = 3
    Hosts = {h1}
    NoCheckpoint = NoCheckpoint
    MaxCheckpoints = 0
INVARIANT
    OncePerDigest
