\* Plans and waybills, and the tunnel to the meters, one at a time.
CONSTANTS
    r1 = r1
    d1 = d1
    m1 = m1
    p1 = p1
    p2 = p2
    Requests = {r1}
    Defects = {d1}
    Masters = {m1}
    Plans = {p1, p2}
    OldDrafts = {p1}
    EditCodes = {"new"}
    poller = poller
    operator = operator
    x = x
    y = y
    open = open
    Pollers = {poller}
    Operators = {operator}
    MaxConnections = 2
    PollCommands <- MCPollCommands
    OpenChannel = open
    WithChannel = {y}
    AnswerLength <- MCAnswerLength
    MaxUnderWay = 2
SPECIFICATION OfficeSpec
INVARIANTS
    WorksTypeOK
    OneActivePlan
    PlanEndsWithItsWorks
    TunnelTypeOK
    OwnAnswer
    PollLeavesASilentMeter
PROPERTIES
    HeldWorkIsNotReturned
    ClosedWorkStaysClosed
    LiveConnectionStays
CHECK_DEADLOCK FALSE
