SPECIFICATION FairSpec
CONSTANTS
    Message = {n1, n2}
    Worker = {w1, w2}
    MaxAttempts = 2
    MaxFaults = 2
    MaxRetries = 1
INVARIANTS OneSender
PROPERTIES KeepsPromise EventsAreSettled
CHECK_DEADLOCK FALSE
