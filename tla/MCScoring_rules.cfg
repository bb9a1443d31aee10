SPECIFICATION Spec
CONSTANTS
    Precision = 2
    ValueSteps <- SmallSteps
    MilestoneSteps <- SmallMilestones
    DomainEvents <- TiedEvents
    Wallet = "w"
    NoProject = "none"
    Karathuru = "karathuru"
    ProjectPoints = 2
    PointsPerProject <- EarlyPoints
    QueryFaults = TRUE
INVARIANTS
    TypeOK
    OncePerProject
    PurchasesRewarded
    PointsOnlyShrink
    CategoriesAddUp
    NamedAdopterGiven
