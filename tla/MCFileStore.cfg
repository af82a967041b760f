SPECIFICATION Spec
CONSTANTS
    B = 2
    Blank = " "
    Garbage = "?"
    Word = 65536
    Handles = {h1, h2}
    Data <- MCData
    MaxSize = 5
    MaxStat = 6
    Requests = "served"
SYMMETRY HandleSymmetry
INVARIANTS
    TypeOK
    LayoutMatchesSize
    ServedSucceed
    ServedReadsAreExact
    WrittenIsStored
PROPERTIES
    IsByteFile
    TruncateKeepsBytes
