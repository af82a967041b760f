SPECIFICATION Spec
CONSTANTS
    WaitTime = 4
    RetryTime = 2
    Never = Never
INVARIANTS
    TypeOK
    NoNeedlessRun
    DeletesAreKept
PROPERTIES
    RetriesApart
    StopReturns
    RequestsAreServed
