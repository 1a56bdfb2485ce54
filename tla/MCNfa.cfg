SPECIFICATION Spec
CONSTANTS
  NumSymbols = 1
  Symbol <- MCSymbol
  MaxStates = 3
  MaxTransitions = 3
  MaxWord = 3
  InsertedWords <- MCInsertedWords
  Other <- MCOther
INVARIANTS WellFormed LanguagesExact
PROPERTY ImplementsTransitionGraph
