SPECIFICATION Spec
CONSTANTS
    Atms = {1}
    Interval = 3
    Pool = {w1}
    InFlightLimit = 2
    Users = {}
    PollTimeout = 1
    LeaseMargin = 1
    ManualBudget = 0
    FailBudget = 0
    CrashBudget = 0
    LinkBudget = 1
PROPERTIES PolledWasDue
