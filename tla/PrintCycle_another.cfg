SPECIFICATION Spec
CONSTANTS
    None = None
    Sends = {1}
    MaxPrints = 2
    MaxFaults = 1
INVARIANTS
    CompleteOnlyWhatFinished
