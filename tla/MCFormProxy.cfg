SPECIFICATION FormsFairSpec
CONSTANTS
    Requests = {r1, r2, r3}
    MaxThreads = 2
    MaxQueued = 2
INVARIANTS
    FormsTypeOK
    TemporaryUser
    ForwardedWasDone
PROPERTIES
    EveryFormEnds
