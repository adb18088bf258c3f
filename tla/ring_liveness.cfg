\* No disk faults: every GET finishes and the upload resolves.
CONSTANTS
    Capacity = 3
    ChunkSize = 2
    StreamMax = 5
    U64Max = 100
    r1 = r1
    r2 = r2
    Readers <- MCReaders
SPECIFICATION Spec
CONSTANTS
    SourceFaults = TRUE
    DiskFaults = FALSE
PROPERTIES
    GetsComplete
    UploadResolves
    TailRefinedLive
\* Resolved is the only end and it stutters, so a state without successor
\* is a hang, and UploadResolves reports it as such.
CHECK_DEADLOCK FALSE
