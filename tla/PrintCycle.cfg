SPECIFICATION FairSpec
CONSTANTS
    None = None
    Sends = {1, 2}
    MaxPrints = 2
    MaxFaults = 1
INVARIANTS
    TerminalOncePerPrint
    CompleteMeansFinished
PROPERTIES
    RestIsNoticed
