SPECIFICATION FairSpec
CONSTANTS
    None = None
    Objects = {1, 2, 3}
    Addrs = {1, 2}
    Adders = {1, 2}
    Rcs = {1}
    MaxReconnects = 1
    MaxGen = 3
    MaxMoves = 1
    MaxFaults = 1
CHECK_DEADLOCK FALSE
INVARIANTS
    LastWordWins
    ClosedUnlessHeld
    SlotsMatchThreads
PROPERTIES
    AddressFollows
