\* Is the memfd mapping released when the upload resolves?
CONSTANTS
    Capacity = 3
    ChunkSize = 2
    StreamMax = 5
    U64Max = 100
    r1 = r1
    r2 = r2
    Readers <- MCReaders
SPECIFICATION Spec
CONSTANTS
    SourceFaults = FALSE
    DiskFaults = FALSE
SYMMETRY MCSymmetry
INVARIANT
    BufferReleased
