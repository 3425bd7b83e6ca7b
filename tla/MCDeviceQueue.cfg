SPECIFICATION Spec
CONSTANTS
    Commands = {c1, c2}
    Devices = {d1}
    Workers = {w1, w2}
    None = None
    Payloads <- LampOnly
    Protocols = {"1", "2"}
    Diagnostic = {}
    Quiet = {d1}
    Interleaved = TRUE
    MaxConn = 1
    MaxQueue = 2
    AdminBudget = 0
    RebootBudget = 0
    CrashBudget = 0
SYMMETRY Symmetric
INVARIANTS TypeOK OneActive
CHECK_DEADLOCK FALSE
