SPECIFICATION Spec
CONSTANT Inputs <- MCInputs
INVARIANTS PartitionsSound RefinementSound MinimalExact
PROPERTY Terminates
CHECK_DEADLOCK FALSE
