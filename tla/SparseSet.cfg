SPECIFICATION Spec
CONSTANT MaxState = 2
INVARIANTS Representation LoopResult
PROPERTIES LoopEnds ImplementsStateSet
