SPECIFICATION Spec
CONSTANTS
    Precision = 2
    ValueSteps <- SmallSteps
    MilestoneSteps <- SmallMilestones
    DomainEvents <- UnnamedEvents
    Wallet = "w"
    NoProject = "none"
    Karathuru = "karathuru"
    ProjectPoints = 2
    PointsPerProject <- EarlyPoints
    QueryFaults = FALSE
INVARIANTS
    EarlyAdopterGiven
