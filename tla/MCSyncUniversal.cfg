SPECIFICATION USpec
CONSTANTS
  MaxValue = 2
  Vectors <- MCVectors
  MaxVectors <- MCTrusted
  Layouts = {"below", "above", "same"}
INVARIANTS Synchronized
PROPERTIES AdvanceReturns DeliversCommon
