SPECIFICATION Spec
CONSTANTS
    Commands = {c1, c2}
    Devices = {d1}
    Workers = {w1}
    None = None
    Payloads <- LampOnly
    Protocols = {"2"}
    Diagnostic = {}
    Quiet = {}
    Interleaved = FALSE
    MaxConn = 1
    MaxQueue = 2
    AdminBudget = 0
    RebootBudget = 0
    CrashBudget = 0
PROPERTIES CompletedByOk
CHECK_DEADLOCK FALSE
