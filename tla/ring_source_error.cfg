\* A failed PUT body while a GET lags behind the drain.
CONSTANTS
    Capacity = 3
    ChunkSize = 2
    StreamMax = 5
    U64Max = 100
    r1 = r1
    r2 = r2
    Readers <- MCReaders
SPECIFICATION Spec
CONSTANTS
    SourceFaults = TRUE
    DiskFaults = FALSE
SYMMETRY MCSymmetry
INVARIANT
    TailObservesSourceError
