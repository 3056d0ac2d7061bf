SPECIFICATION MCSpec
INVARIANTS ProgramsGetTheirWords NumbersReadBack
PROPERTIES CursorGoesThere
CHECK_DEADLOCK FALSE
