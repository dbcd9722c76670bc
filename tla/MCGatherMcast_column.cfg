SPECIFICATION FairSpec
CONSTANTS
  GridY = 3
  GridX = 1
  Inputs = 3
  IteratorTypes <- ColumnIterators
  Streams <- MC_Both
  NumIters = 2
  NumDatamovementThreads = 3
  NumComputeThreads = 1
INVARIANTS McastIntoReserved NoIncrementLost NoFinishedLost NeverStuck
PROPERTIES StableWhileAwaited ImplementsGenericOp Termination
