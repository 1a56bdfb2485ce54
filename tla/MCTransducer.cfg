SPECIFICATION Spec
CONSTANTS
  Symbol = {0, 1, 2, 4, 5}
  Letter = {0, 1}
  Marker = 2
  DONT_CARE = 4
  EPSILON = 5
  Beginnings <- MCBeginnings
  Partners <- MCPartners
  Inputs <- MCInputs
  Patterns <- MCPatterns
  Written <- MCWritten
  MaxWord = 2
  MaxLong = 3
  MaxLevels = 4
  MaxTracks = 5
  MaxCalls = 2
  MaxStates = 4
INVARIANTS AnswersExact
PROPERTY TransductionsExact
CHECK_DEADLOCK FALSE
