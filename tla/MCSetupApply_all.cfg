SPECIFICATION Spec
CONSTANTS
    Runs = {r1, r2}
    N = 2
    Canonical = {1}
    Mirrors = {2}
    agents = agents
    Dirs = {agents}
    Parent <- MCParent
    Root = Root
    Missing = Missing
    Partial = Partial
    Foreign = Foreign
    Blocked = Blocked
    MaxFaults = 1
    MaxEdits = 1
SYMMETRY Symmetric
\* Every run ends.
CHECK_DEADLOCK FALSE
INVARIANTS
    ReceiptCovers
    PartialIsReported
    CreatedIsTrue
    MirrorsFollow
    CompleteIsWhole
    SomeoneSucceeds
PROPERTY WritersPreserved
