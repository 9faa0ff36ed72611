SPECIFICATION Spec
CONSTANT ArgVectors <- Vectors
CHECK_DEADLOCK FALSE
INVARIANTS Gated StatusTells EarliestView InputFile ExecutedLowered
