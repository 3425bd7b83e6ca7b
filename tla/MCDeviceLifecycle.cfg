SPECIFICATION Spec
CONSTANTS
    Commands = {c1, c2, c3}
    Devices = {d1}
    Workers = {w1}
    None = None
    Payloads <- LampOnly
    Protocols = {"1", "2"}
    Diagnostic = {d1}
    Quiet = {}
    Interleaved = FALSE
    MaxConn = 1
    MaxQueue = 2
    AdminBudget = 0
    RebootBudget = 1
    CrashBudget = 0
SYMMETRY Symmetric
PROPERTIES ImplementsQueue
CHECK_DEADLOCK FALSE
