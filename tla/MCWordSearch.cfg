SPECIFICATION Spec
CONSTANTS
  State <- MCState
  Symbol <- MCSymbol
  Inputs <- MCInputs
  first_epsilon = 2
INVARIANTS SearchSound AnswerExact
PROPERTY Terminates
CHECK_DEADLOCK FALSE
