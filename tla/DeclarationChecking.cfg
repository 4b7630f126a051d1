CONSTANTS
  Decl <- MCDecl
  Block <- MCBlock
  Name <- MCName
  Programs <- MCPrograms
  NoDecl = NoDecl
SPECIFICATION FairSpec
INVARIANTS TypeOK ScopeIsLexical MarksAscend NoReentry AssertMeansCycle ErrorsExact AcceptedIsSound
PROPERTY Terminates
CHECK_DEADLOCK FALSE
