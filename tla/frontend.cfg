SPECIFICATION FrontendSpec
CONSTANT Programs <- AllPrograms
CHECK_DEADLOCK FALSE
INVARIANTS TypeOK AllTyped CrashOnlyReported Closed Verdict Compiles
PROPERTY BindingsStay
