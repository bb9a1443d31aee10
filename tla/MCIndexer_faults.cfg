SPECIFICATION Spec
CONSTANTS
    Contracts <- OneContract
    Items <- OneContractItems
    StartBlock = 3
    MaxBlock = 5
    RetryLimit = 0
    MaxCrashes = 2
    StorageFaults = TRUE
INVARIANTS
    NothingSkipped
PROPERTIES
    ImplementsEventLog
