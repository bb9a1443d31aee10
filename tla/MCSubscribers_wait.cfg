SPECIFICATION FairSpec
CONSTANTS
    Events <- WaitEvents
    SubjectOf <- WaitSubjects
    ProjectOf <- OneProject
    Moves = 0
    SlotOf <- SlotsOf
    TokenOf <- OneToken
    Copies = 1
    MaxValue = 1
    MaxCrashes = 1
    MaxResets = 0
    RpcFaults = TRUE
    FaultySubjects = {}
PROPERTIES
    WaitsEnd
CHECK_DEADLOCK FALSE
