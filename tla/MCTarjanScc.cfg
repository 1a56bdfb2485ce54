SPECIFICATION Spec
CONSTANTS
  NumStates = 3
  State <- MCState
  InitialLists <- SomeInitialLists
  MoveLists <- MCMoveLists
INVARIANTS StackSound ComponentsExact ClientsExact
PROPERTY Terminates
CHECK_DEADLOCK FALSE
