SPECIFICATION MCSpec
CONSTANT
  BadLiterals <- MCBadLiterals
INVARIANTS
  TypeOK
  ReadsBack
  CommentsAreTransparent
  NothingIsDropped
  MaximalMunch
  CommentsNest
CHECK_DEADLOCK FALSE
