SPECIFICATION Spec
CONSTANTS
    m1 = m1
    m2 = m2
    t1 = t1
    t2 = t2
    Threads = {t1}
    Mounts = {m1}
    MountOf <- Alone
    Names = {"b", "ab", "cb"}
    Paths <- Many
    Tail1 <- Tails
    MaxFiles = 4
    Slots = {0}
    Starts <- LookupStarts
    Faults = {t1}
    NoFile = NoFile
INVARIANTS
    NeverDies
CHECK_DEADLOCK FALSE
