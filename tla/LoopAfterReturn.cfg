CONSTANTS
  i = i
  j = j
  x = x
  NoVar = NoVar
  Half = 8
  Depth = 8
  Var <- MCVar
  Statement <- MCStatement
  Condition <- MCCondition
  Reads <- MCReads
  Programs <- LoopAfterReturn
SPECIFICATION FairSpec
INVARIANT LoopStartsInOpenBlock
CHECK_DEADLOCK FALSE
