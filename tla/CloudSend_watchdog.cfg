CONSTANTS
    None = None
    p1 = p1
    k1 = k1
    k2 = k2
    Printers = {p1}
    PrinterOf <- MCPrinterOf
    Env = {"crash", "echo", "name", "ack", "write"}
    Sends = {k1}
    RouterOn = TRUE
    PhaseA = 1
    PhaseB = 2
    HoldMax = 2
    SlotHoldMax = 2
    SetupLimit = 2
    SetupMin = 1
    MaxAttempts = 3
    MaxVer = 1
    MaxFaults = 1
SPECIFICATION Spec
INVARIANTS
    StartBudget
    ConfirmedSendRan
PROPERTIES
    FreshStartOnce
    NoResetWhileSilent
