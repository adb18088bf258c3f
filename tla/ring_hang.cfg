\* A failed file write while a GET is caught up: the GET is never woken.
\* The hung state has no successor, so deadlock is not reported as such.
CONSTANTS
    Capacity = 3
    ChunkSize = 2
    StreamMax = 5
    U64Max = 100
    r1 = r1
    r2 = r2
    Readers <- MCReaders
SPECIFICATION Spec
CONSTANTS
    SourceFaults = FALSE
    DiskFaults = TRUE
PROPERTY
    GetsComplete
CHECK_DEADLOCK FALSE
