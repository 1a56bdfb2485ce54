SPECIFICATION Spec
CONSTANTS
  NumStates = 3
  NumSymbols = 2
  State <- MCState
  Symbol <- MCSymbol
  Inputs <- MCInputs
  MaxWord = 4
INVARIANTS ConstructionSound LanguageKept
PROPERTIES Terminates ImplementsExploration
CHECK_DEADLOCK FALSE
