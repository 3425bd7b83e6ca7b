SPECIFICATION Spec
CONSTANTS
    Commands = {c1}
    Devices = {d1}
    Workers = {w1}
    None = None
    Payloads <- NightOnly
    Protocols = {"2"}
    Diagnostic = {}
    Quiet = {}
    Interleaved = TRUE
    MaxConn = 2
    MaxQueue = 2
    AdminBudget = 1
    RebootBudget = 0
    CrashBudget = 1
SYMMETRY Symmetric
INVARIANTS OpenIsRegistered Presence
PROPERTIES CompletedSwitched
CHECK_DEADLOCK FALSE
