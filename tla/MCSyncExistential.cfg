SPECIFICATION ESpec
CONSTANTS
  MaxValue = 2
  Vectors <- MCVectors
  MaxPushed = 3
INVARIANTS AllCollected SynchronizesExactly
PROPERTIES CallReturns DeliversOffered
