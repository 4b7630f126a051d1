CONSTANTS
  i = i
  j = j
  x = x
  NoVar = NoVar
  Half = 8
  Depth = 8
  Var <- MCVar
  Statement <- MCStatement
  Condition <- MCCondition
  Reads <- MCReads
  Programs <- EmptyFor
SPECIFICATION FairSpec
PROPERTY ForLoopsEnd
CHECK_DEADLOCK FALSE
