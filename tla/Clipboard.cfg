CONSTANTS
    Copies = {c1, c2, c3}
    HandlerMayThrow = FALSE
CHECK_DEADLOCK FALSE
SPECIFICATION FairSpec
INVARIANTS
    HistoryFollowsWrites
    WrittenNeverRejects
    SettledIsAccountedFor
PROPERTIES
    EveryCopySettles
