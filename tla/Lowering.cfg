CONSTANTS
  i = i
  j = j
  x = x
  NoVar = NoVar
  Half = 8
  Depth = 8
  Var <- MCVar
  Statement <- MCStatement
  Condition <- MCCondition
  Reads <- MCReads
  Programs <- AllPrograms
SPECIFICATION FairSpec
INVARIANTS TypeOK SameBehaviour GeneratesValidCode
PROPERTY CountedLoopsEnd
CHECK_DEADLOCK FALSE
