CONSTANT Programs <- MCPrograms
SPECIFICATION Spec
INVARIANTS WellFormed SameResults AllScalar
PROPERTY RewritesOne
\* The pass ends.
CHECK_DEADLOCK FALSE
