CONSTANTS
    Printers = {p1, p2}
    EventIds = {i1, i2, i3}
    MaxEvents = 2
    MaxSeq = 3
    MaxCrashes = 1
    MaxFaults = 1
    MaxMoves = 2
SPECIFICATION LiveSpec
INVARIANTS
    TypeOK
    SeqsInOrder
    SeqRisesWhileDiskWorks
PROPERTIES
    ChannelSpec
    EveryEventSettles
