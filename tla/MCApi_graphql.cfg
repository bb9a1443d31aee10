SPECIFICATION ApiSpec
CONSTANTS
    A = A
    B = B
    Nil = Nil
    Null = Null
    Wallets = {A, B}
    Scored <- Scorings
    Word = 16
    MaxValue = 22
    Modulus = 1024
    MaxFields = 2
    OtherLines <- MCLines
    Precision = 10
    ValueSteps <- Steps3
    MilestoneSteps <- Milestones
INVARIANTS
    ResponseConforms
    NullsExplained
    LinesAsScored
    QuoteIsConsistent
    MissingSuffices
PROPERTIES
    ResponseComplete
