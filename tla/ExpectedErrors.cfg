CONSTANTS
  Decl <- MCDecl
  Block <- MCBlock
  Name <- MCName
  Programs <- MCPrograms
  NoDecl = NoDecl
SPECIFICATION FairSpec
INVARIANT AcceptedIsClean
CHECK_DEADLOCK FALSE
