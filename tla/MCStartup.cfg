SPECIFICATION Spec
CONSTANTS
    p1 = p1
    p2 = p2
    Procs = {p1, p2}
    NoValue = NoValue
    Absent = Absent
    User = "me"
    Words <- MCWords
    Paths = {"myfs.conf", "alt.conf"}
    DbNames = {"myfs", "other"}
    Hosts = {"%", "127.0.0.1"}
    Refusals <- AsIsOrCorrected
    Faults = {"connect", "statement", "link", "file", "thread", "mount"}
    Starts <- MCStarts
INVARIANTS
    TypeOK
    OptionsAreAsTold
    LeavesNothingRunning
    SetUpIsWhole
    FailedLeavesNoConfig
PROPERTIES
    OthersStay
    AgreedEnds
CHECK_DEADLOCK FALSE
