SPECIFICATION FairPipelineSpec
CONSTANTS
    Contracts <- OneContract
    Items <- OneContractItems
    StartBlock = 3
    MaxBlock = 4
    RetryLimit = 0
    MaxIndexerCrashes = 0
    MaxCrashes = 2
    IndexerFaults = FALSE
    StorageFaults = TRUE
INVARIANTS
    TypeOK
    HolesWereOvertaken
PROPERTIES
    HolesAreFilled
    DeliversAll
