CONSTANTS
    P = 101
    Threads = 2
    NoSlot = NoSlot
    Unwritten = Unwritten
    Airs <- MCAirs
    Rows <- MCRows
SPECIFICATION Spec
INVARIANT DagComputes
INVARIANT ZerocheckAgrees
INVARIANT LogupAgrees
CHECK_DEADLOCK FALSE
