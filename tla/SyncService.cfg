CONSTANTS
    Subscribers = {s1, s2}
    Cursors = {1, 2, 3}
    NoCursor = 0
    InitialCursor = 0
    MaxRetries = 1
    MaxMutations = 2
    PortErrors = {"OtherError"}
    Executions = {e1, e2}
SYMMETRY ServiceSymmetry
SPECIFICATION ServiceSpec
INVARIANTS
    MutationsExactlyOnce
    CompletedIsFresh
