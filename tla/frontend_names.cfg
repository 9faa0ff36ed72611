SPECIFICATION FrontendSpec
CONSTANT Programs <- NamePrograms
CHECK_DEADLOCK FALSE
INVARIANT NamesFound
