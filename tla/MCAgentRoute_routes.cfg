SPECIFICATION RoutesOrSwitches
CONSTANTS
    Claims = {c1}
    Workers = {w1, w2}
    Hosts = {h1, h2}
    Snapshots = {s1, s2}
    Contents = {v1, v2}
    Missing = Missing
    StepCap = 8
    WorkerCap = 1
    ReceiptCap = 2
    EventCap = 2
    MaxSlips = 1
    MaxEdits = 1
SYMMETRY Symmetric
INVARIANTS
    DeliveryIsReviewed
    PrefixesAccepted
    NoDeadEnd
    HandoffsKept
