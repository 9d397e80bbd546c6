SPECIFICATION FairSpec
CONSTANTS
    None = None
    stop = stop
    record = record
    Ids = {record, stop}
    Messages <- MCMessages
    Persists = {}
    Refusable = {record}
    Clearing = {stop}
    Stamped = {record, stop}
    MaxFaults = 1
    MaxOutages = 1
CHECK_DEADLOCK FALSE
INVARIANTS
    PublishedOnce
    ReceiptIsTrue
PROPERTIES
    CommandSettles
