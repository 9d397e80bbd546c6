SPECIFICATION FairSpec
CONSTANTS
    None = None
    NoOne = NoOne
    Workers = {1, 2}
    Callers = {1, 2}
    Jobs = {1, 2}
    Copies = {1, 2}
    QueueSize = 1
    Blocks = 1
    CoolOff = 2
    MaxFaults = 1
    MaxStops = 1
CHECK_DEADLOCK FALSE
INVARIANTS
    CountIsWaiting
    CoolOffEnds
    StartFindsItsFile
    CancelIsMeant
PROPERTIES
    VerdictIsTrue
    AcceptedIsAnswered
