CONSTANTS
    Serials = {s1}
    Addresses = {a1, a2}
    None = None
    MaxAdopts = 2
    MaxDeletes = 1
    MaxRepins = 1
    MaxOthers = 1
    MaxFailures = 1
    MaxLost = 1
    MaxCrashes = 1
SPECIFICATION LiveSpec
INVARIANTS
    CodeKept
    
    ProvedAddressStays

    
