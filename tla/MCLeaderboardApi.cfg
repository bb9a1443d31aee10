SPECIFICATION FairApiSpec
CONSTANTS
    Wallets <- TwoWallets
    Runs <- TwoSlots
    MaxRows = 3
    MaxCrashes = 1
    MaxOverlaps = 1
    MaxFaults = 1
    ScoreOf <- Scores
    MaxInt = 7
    Pages = {0, 1, 2}
    Limits <- SomeLimits
INVARIANTS
    TypeOK
    UniqueWhileCalm
    RankingNeverLost
    ShownStaysShown
PROPERTIES
    EventuallyWhole
    PageAddsUp
    EmptyOnlyInSwap
