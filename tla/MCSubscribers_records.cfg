SPECIFICATION FairSpec
CONSTANTS
    Events <- MixedEvents
    SubjectOf <- MixedSubjects
    ProjectOf <- TwoProjects
    Moves = 1
    SlotOf <- SlotsOf
    TokenOf <- OneToken
    Copies = 1
    MaxValue = 2
    MaxCrashes = 1
    MaxResets = 1
    RpcFaults = FALSE
    FaultySubjects <- AirdropFails
INVARIANTS
    TypeOK
    AnnouncedIsKept
    MinterKeepsUp
PROPERTIES
    RecordsAreFinal
    AllRecorded
    PurchasesCounted
CHECK_DEADLOCK FALSE
