SPECIFICATION Spec
CONSTANTS
    SGL_SEGSIZE = 2
    SGL_PAGESIZE = 4
    Files <- SmallFiles
CHECK_DEADLOCK FALSE
INVARIANTS
    LinesIntact
