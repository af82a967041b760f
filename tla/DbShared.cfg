SPECIFICATION Spec
CONSTANTS
    c1 = c1
    c2 = c2
    c3 = c3
    c4 = c4
    Workers = {w1, w2}
    Calls = {c1, c2}
    Script <- WritesScript
    RetryOptions <- Default
    Faults = {}
    Nobody = Nobody
    NoCall = NoCall
INVARIANTS
    AtomicWrites
CHECK_DEADLOCK FALSE
