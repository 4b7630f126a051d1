SPECIFICATION MCSpec
CONSTANT
  Capacity = 24
INVARIANT
  LocalProceduresAreReported
CHECK_DEADLOCK FALSE
