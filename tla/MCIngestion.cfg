SPECIFICATION FairIngestionSpec
CONSTANTS
    Contracts <- OneContract
    Items <- OneContractItems
    StartBlock = 3
    MaxBlock = 5
    RetryLimit = 0
    MaxCrashes = 1
    StorageFaults = FALSE
    SubjectOf <- Subject
    ProjectOf <- OneProject
    Moves = 0
    SlotOf <- OneSlot
    TokenOf <- OneToken
    Copies = 3
    MaxValue = 2
    MaxResets = 1
    RpcFaults = FALSE
    FaultySubjects = {}
INVARIANTS
    TypeOK
    RestartRecovers
    NothingLost
    NoThirdCopy
PROPERTIES
    RegressionIsBounded
    ImplementsHandlers
CHECK_DEADLOCK FALSE
