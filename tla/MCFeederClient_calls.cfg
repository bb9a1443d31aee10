SPECIFICATION FairSpec
CONSTANTS
    Callers <- ThreeCallers
    MaxRpm = 2
    MaxFailures = 2
INVARIANTS
    TypeOK
PROPERTIES
    OnlyBusyLimits
    ImplementsGateway
CHECK_DEADLOCK FALSE
