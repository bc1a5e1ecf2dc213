SPECIFICATION FairSpec
CONSTANTS
    Leader = leader
    Kin = {k1, k2}
    CanEscape = {k1}
    MayFailRead = TRUE
    Limit = 3
    Chunk = 2
    PipeSize = 2
    MaxBytes = 4
\* The call is over and every process may have ended.
CHECK_DEADLOCK FALSE
INVARIANTS GroupIsGone OkIsWhole
PROPERTY ReturnsUnlessEscaped
