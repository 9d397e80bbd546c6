CONSTANTS
    None = None
    p1 = p1
    k1 = k1
    k2 = k2
    Printers = {p1}
    PrinterOf <- MCPrinterOf
    Env = {"echo", "ack", "link", "start", "upload", "crash", "outage"}
    Sends = {k1}
    RouterOn = TRUE
    PhaseA = 1
    PhaseB = 1
    HoldMax = 1
    SlotHoldMax = 2
    SetupLimit = 2
    SetupMin = 1
    MaxAttempts = 2
    MaxVer = 1
    MaxFaults = 1
SPECIFICATION LiveSpec
PROPERTIES
    InFlightSettles
    QueuedSendSettles
