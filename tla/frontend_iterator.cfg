SPECIFICATION FrontendSpec
CONSTANT Programs <- IteratorPrograms
CHECK_DEADLOCK FALSE
INVARIANT IteratorIsI64
