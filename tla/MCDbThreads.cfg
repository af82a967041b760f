SPECIFICATION Spec
CONSTANTS
    c1 = c1
    c2 = c2
    c3 = c3
    c4 = c4
    Workers = {w1, w2}
    Calls = {c1, c2, c3}
    Script <- ThreadsScript
    RetryOptions <- DefaultOrTwice
    Faults = {"link", "statement", "abort"}
    Nobody = Nobody
    NoCall = NoCall
PROPERTIES
    CallsReturn
CHECK_DEADLOCK FALSE
