CONSTANTS
    Copies = {c1}
    HandlerMayThrow = TRUE
CHECK_DEADLOCK FALSE
SPECIFICATION Spec
INVARIANTS
    WrittenNeverRejects
