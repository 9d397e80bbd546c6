SPECIFICATION FairSpec
CONSTANTS
    None = None
    Clients = {1, 2}
    Stale = 1
    HoldMax = 2
    Cooldown = 1
    ConnectTimeout = 1
    RedialMin = 1
    RedialMax = 1
    AuthRetry = 2
    Backstop = 3
    MaxFaults = 1
INVARIANTS
    OneSocket
    NeverStranded
PROPERTIES
    AuthRetryIsSlow
    Reconnects
