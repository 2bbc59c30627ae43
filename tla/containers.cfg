CONSTANTS
    BlockSize = 128
    FailLimit = 0
    ScanLimit = 0
    MaxBlocks = 2
    MaxChunks = 1
    MaxNodes = 2
    h1 = h1
    h2 = h2
    Handles = {h1}
    Sizes = {20, 70}
    Fds = {3}
    a1 = a1
    Arrays = {a1}
    ElemSize = 8
    Counts = {1, 2}
    MaxElems = 3
    MaxFiles = 1
    MaxBare = 1
SPECIFICATION Spec
INVARIANTS
    NoOverlap
    ElementsHaveRoom
