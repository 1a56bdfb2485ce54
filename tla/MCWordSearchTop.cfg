SPECIFICATION Spec
CONSTANTS
  State <- MCState
  Symbol <- MCSymbol
  Inputs <- MCInputs
  first_epsilon = 2
INVARIANT TopmostExists
CHECK_DEADLOCK FALSE
