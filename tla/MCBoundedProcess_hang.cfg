SPECIFICATION FairSpec
CONSTANTS
    Leader = leader
    Kin = {k1}
    CanEscape = {k1}
    MayFailRead = FALSE
    Limit = 2
    Chunk = 2
    PipeSize = 2
    MaxBytes = 4
\* The call is over and every process may have ended.
CHECK_DEADLOCK FALSE
PROPERTY
    CallReturns
