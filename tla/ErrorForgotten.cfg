SPECIFICATION Spec
CONSTANTS
    p1 = p1
    p2 = p2
    Procs = {p1}
    NoValue = NoValue
    Absent = Absent
    User = "me"
    Words <- MCWords
    Paths = {"myfs.conf", "alt.conf"}
    DbNames = {"myfs", "other"}
    Hosts = {"%", "127.0.0.1"}
    Refusals <- AsIs
    Faults = {}
    Starts <- AnyFile
INVARIANTS
    ErrorsStop
CHECK_DEADLOCK FALSE
