SPECIFICATION Spec
CONSTANTS
    NumOps = 2
    Graphs <- MCTwoFunctions
    Policies <- MCSharding
    Overrides <- MCOverrides
    memReconfigEnabled = TRUE
    K = 2
    NumLayouts = 3
    kNumBitsetBits = 3
    GridVolume <- MCGridVolume
    BlockSharded = {2}
    WordBits = 5
    OutputL1Usage <- MCOutputL1Usage
    AvailableL1CacheSize = 6
INVARIANT AssertionsHold
