SPECIFICATION FairSpec
CONSTANTS
    Clients = {a, b}
    Shared = {a}
    NoClient = none
    NumberOfClosedSlots = 1
    QueueLength = 3
    MaxReports = 1
    ServiceCalls = {}
    LoopCalls = {"connect", "resolve", "abort", "close"}
INVARIANTS SlotsAccounted QuietOrder DeletedAtRest
PROPERTY EveryGoodbye
CHECK_DEADLOCK FALSE
