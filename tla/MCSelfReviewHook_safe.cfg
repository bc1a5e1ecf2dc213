SPECIFICATION EventsSpec
CONSTANTS
    Proc = {p1, p2}
    Nobody = Nobody
    Slow = {p1, p2}
    MaxFaults = 2
    Sessions = {1, 2, 3}
    Digests = {a, b}
    NoDigest = NoDigest
    NoSession = NoSession
    NoRecord = NoRecord
    MaxNudges = 2
    Retained = 2
    MaxEvents = 3
    Hosts = {h1, h2, h3}
    NoCheckpoint = NoCheckpoint
    MaxCheckpoints = 2
SYMMETRY Symmetric
INVARIANTS
    HoldersOwnTheFile
    StoreTellsHistory
    CappedAndAlternating
    SpentNudgesAreShown
    ResumeFindsCheckpoint
    CheckpointIsRecent
PROPERTIES
    ImplementsLedger
    PeersKept
