SPECIFICATION Spec
CONSTANTS
    m1 = m1
    m2 = m2
    t1 = t1
    t2 = t2
    Threads = {t1, t2}
    Mounts = {m1, m2}
    MountOf <- OneEach
    Names = {"b", "ab", "cb"}
    Paths <- Many
    Tail1 <- Tails
    MaxFiles = 4
    Slots = {0}
    Starts <- TreeStarts
    Faults = {t2}
    NoFile = NoFile
INVARIANTS
    TypeOK
    NamesAreUnique
    ParentsExist
    SlotsMatchFiles
    LinksHoldOwnTarget
PROPERTIES
    MovesKeepTheTree
CHECK_DEADLOCK FALSE
