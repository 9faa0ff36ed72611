SPECIFICATION Spec
CONSTANTS
  N = 5
  Width = 2
  ConstValues = {0}
  Arithmetic = {"add"}
  Graphs <- SharedZero
INVARIANT OthersUntouched
CHECK_DEADLOCK FALSE
