SPECIFICATION FairSpec
CONSTANTS
  N = 5
  Width = 2
  ConstValues = {0, 1}
  Arithmetic = {"add", "sub", "mul", "div"}
  Graphs <- MCGraphs
INVARIANTS
  TypeOK
  MemorySafe
  SameObservations
PROPERTIES
  StepShrinks
  FoldsAll
\* The pass stops when no pattern matches.
CHECK_DEADLOCK FALSE
