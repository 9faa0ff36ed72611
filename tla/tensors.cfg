SPECIFICATION CallSpec
CONSTANTS
  Width = 6
  Modulus = 11
  Exp <- MCExp
  Garbage = Garbage
  Exprs <- MCExprs
CHECK_DEADLOCK FALSE
INVARIANTS
  TypesAgree
  AcceptedCompile
  InBounds
  ParallelDisjoint
PROPERTY
  Meaning
