SPECIFICATION FairSpec
CONSTANTS
    Commands = {c1}
    Devices = {d1}
    Workers = {w1}
    None = None
    Payloads <- LampOnly
    Protocols = {"1", "2"}
    Diagnostic = {}
    Quiet = {}
    Interleaved = FALSE
    MaxConn = 2
    MaxQueue = 2
    AdminBudget = 0
    RebootBudget = 0
    CrashBudget = 1
PROPERTIES SlotIsGivenBack PendingIsSent
CHECK_DEADLOCK FALSE
