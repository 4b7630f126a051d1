CONSTANTS
  i = i
  j = j
  x = x
  NoVar = NoVar
  Half = 8
  Depth = 8
  Var <- MCVar
  Statement <- MCStatement
  Condition <- MCCondition
  Reads <- MCReads
  Programs <- NestedBlockInFor
SPECIFICATION FairSpec
INVARIANT ForIsWhile
CHECK_DEADLOCK FALSE
