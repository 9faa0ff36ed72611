SPECIFICATION Spec
CONSTANTS
  Texts <- LexTexts
  MaxInvalid = 2
CHECK_DEADLOCK FALSE
INVARIANTS MaximalMunch AcceptsLexemes PrefixesSplit Positions
