\* Two cabinets, a pool thread and a user; two tests of two pins over one bit,
\* two requests at once, two samples, as many frames on their way.
SPECIFICATION BothSpec
CONSTANTS
    Atms = {1, 2}
    Interval = 3
    Pool = {w1}
    InFlightLimit = 2
    Users = {u1}
    PollTimeout = 1
    LeaseMargin = 1
    ManualBudget = 1
    FailBudget = 1
    CrashBudget = 1
    LinkBudget = 2
    Pins = {p1, p2}
    PilotPins = {p2}
    Bits = {b1}
    h1 = h1
    h2 = h2
    Handlers = {h1, h2}
    StableSamples = 2
    None = None
    MaxWire = 2
    MaxTests = 2
    Marks = 2
    Saves = 2
    Flips = 1
    Faults = 1
INVARIANTS
    TypeOK
    OnePollPerAtm
    SubmittedOnce
    LeaseOfHolder
    TestTypeOK
    DoneIsLogged
    MapFromTests
    LoggedHasChanged
PROPERTIES
    DueIsPolled
    MarkedTestEnds
