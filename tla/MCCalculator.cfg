SPECIFICATION Spec
CONSTANTS
  Symbol = {0, 1, 2}
  EPSILON = 2
  Beginnings <- MCBeginnings
  Stock = {1, 2}
  Other <- MCOther
  MaxWord = 3
  MaxCalls = 2
  MaxStates = 3
INVARIANTS QueriesExact DecisionsExact RepresentationsExact
PROPERTIES StringsExact ImplementsLanguageAlgebra
CHECK_DEADLOCK FALSE
