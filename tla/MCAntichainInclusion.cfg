SPECIFICATION Spec
CONSTANTS
  StateS <- MCState
  StateB <- MCState
  Symbol <- MCSymbol
  Inputs <- MCInputs
  Handed <- EmptyRun
INVARIANTS AntichainSound AnswerExact CexExact
PROPERTY Terminates
CHECK_DEADLOCK FALSE
