SPECIFICATION Spec
CONSTANTS
    c1 = c1
    c2 = c2
    c3 = c3
    c4 = c4
    Workers = {w1}
    Calls = {c1, c2, c3, c4}
    Script <- MCScript
    RetryOptions <- DefaultOrTwice
    Faults = {"link", "statement", "abort"}
    Nobody = Nobody
    NoCall = NoCall
INVARIANTS
    TypeOK
    AllOrNothing
    FailedLeavesNothing
    NoLeftoverTransaction
    SinglesAreDurable
PROPERTIES
    CallsAreAtomic
    CallsReturn
CHECK_DEADLOCK FALSE
