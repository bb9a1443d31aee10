SPECIFICATION Spec
CONSTANTS
    Wallets <- TwoWallets
    Runs <- OneSlot
    MaxRows = 3
    MaxCrashes = 1
    MaxFaults = 0
    MaxOverlaps = 0
INVARIANTS
    WalletUnique
