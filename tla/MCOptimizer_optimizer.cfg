SPECIFICATION FairSpec
CONSTANTS
    NumOps = 4
    Graphs <- MCGraphs
    Policies <- MCPolicies
    Overrides <- MCOverrides
    memReconfigEnabled = TRUE
    K = 2
    NumLayouts = 3
    kNumBitsetBits = 3
    GridVolume <- MCGridVolume
    BlockSharded = {2}
    WordBits = 5
    OutputL1Usage <- MCOutputL1Usage
    AvailableL1CacheSize = 6
INVARIANTS AssertionsHold ChainsConsecutive InputsAsValidated Dominance ResultTypesMatch MaximisesCoreUsage L1UsageExact GreedyFitsL1 FirstResultScheduled
PROPERTY Terminates
