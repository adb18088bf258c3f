\* All faults enabled.  The drain-failure hang (see ring_hang) leaves states
\* with no successor, so deadlock is not checked here.
CONSTANTS
    Capacity = 3
    ChunkSize = 2
    StreamMax = 5
    U64Max = 100
    SourceFaults = TRUE
    DiskFaults = TRUE
    r1 = r1
    r2 = r2
    Readers <- MCReaders
SYMMETRY MCSymmetry
SPECIFICATION Spec
INVARIANTS
    TypeOK
    QueueBounds
    TailReadsExact
    DurableCopyExact
    FallbackTargetDurable
    ResultDeferred
PROPERTIES
    TailRefined
CHECK_DEADLOCK FALSE
