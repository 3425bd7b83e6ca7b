\* Two processes, three letters, batches of two; two objects, two cards and one
\* handler of a user.
CONSTANTS
    a = a
    b = b
    aged = aged
    sched = sched
    web = web
    s0 = s0
    w1 = w1
    w2 = w2
    Mails = {a, b, aged}
    OldMails = {aged}
    HugeMails = {b}
    Runners = {sched, web}
    Service = sched
    ConnsOf <- MCConnsOf
    Limit = 2
    MaxValidity = 2
    MaxDepth = 2
    Perishable = {a}
    n1 = n1
    n2 = n2
    Objects = {1, 2}
    Orders = {n1, n2}
    MainObject <- MCMainObject
    OtherObjects <- MCOtherObjects
    PlaceObject <- MCPlaceObject
    MaxProjects = 3
    MaxTenders = 2
    MaxContracts = 2
    EditBudget = 1
    Typed = {"free", "active", "cancelled", "open", "won", "lost", "busy", "completed"}
    Stages <- MCStages
SPECIFICATION ImportsSpec
INVARIANTS
    MailTypeOK
    OneInquiryPerNumbering
    FileOfItsMail
    ChainTypeOK
    PrimaryIsLinked
    OneOpenProject
    OneRowPerCard
    SiteImportRepeats
PROPERTIES
    EveryMailImported
    ImportFillsOnly
CHECK_DEADLOCK FALSE
