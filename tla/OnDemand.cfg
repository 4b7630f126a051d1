CONSTANTS
  main = main
  f = f
  g = g
  e = e
  NoProc = NoProc
  Proc <- MCProc
  Modules <- MCModules
SPECIFICATION FairSpec
INVARIANTS TypeOK FunctionsAreUnique InsertPointIsOwn OneCompilerEach
PROPERTIES Implements Terminates
CHECK_DEADLOCK FALSE
