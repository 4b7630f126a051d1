CONSTANT Programs <- MCPrograms
SPECIFICATION Spec
INVARIANT OperandsAreRejected
CHECK_DEADLOCK FALSE
