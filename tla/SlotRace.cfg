SPECIFICATION Spec
CONSTANTS
    m1 = m1
    m2 = m2
    t1 = t1
    t2 = t2
    Threads = {t1, t2}
    Mounts = {m1}
    MountOf <- BothOnOne
    Names = {"b", "ab", "cb"}
    Paths <- Many
    Tail1 <- Tails
    MaxFiles = 4
    Slots = {0, 1}
    Starts <- OpenStarts
    Faults = {}
    NoFile = NoFile
INVARIANTS
    OneFilePerSlot
CHECK_DEADLOCK FALSE
