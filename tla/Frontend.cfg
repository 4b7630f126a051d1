SPECIFICATION MCSpec
CONSTANT
  Capacity = 24
INVARIANTS
  TypeOK
  ContextIsInnermost
  HeapIsTheTree
  OutcomeIsForetold
  NamesAreExact
  ResolvesLexically
CHECK_DEADLOCK FALSE
