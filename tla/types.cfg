SPECIFICATION Spec
CONSTANTS
  Dims <- SmallDims
  MaxArity = 1
  MaxObjects = 9
CHECK_DEADLOCK FALSE
INVARIANTS TypeOK Unique FreedOnce
PROPERTY Implements
