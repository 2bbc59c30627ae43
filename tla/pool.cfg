CONSTANTS
    BlockSize = 96
    FailLimit = 0
    ScanLimit = 0
    MaxBlocks = 4
    MaxChunks = 2
    MaxNodes = 3
    h1 = h1
    h2 = h2
    Handles = {h1, h2}
    Sizes = {20, 32, 40}
    Fds = {3}
    a1 = a1
    Arrays = {}
    ElemSize = 8
    Counts = {}
    MaxElems = 0
    MaxFiles = 2
    MaxBare = 1
SYMMETRY Symmetry
SPECIFICATION Spec
INVARIANTS
    TypeOK
    NoOverlap
    WellPlaced
    SkippedWereFull
    FilesClosedOnce
