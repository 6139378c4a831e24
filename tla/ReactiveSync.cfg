CONSTANTS
    Subscribers = {s1, s2}
    Cursors = {c1, c2, c3}
    NoCursor = null
    InitialCursor = c1
    MaxRetries = 2
    MaxMutations = 1
    PortErrors = {"ApiError", "OtherError"}
    Executions = {e1, e2}
SPECIFICATION FairSpec
INVARIANTS
    TypeOK
    OneLiveRequest
    NothingRunsUnobserved
    NeverStranded
    NoPageReplayed
    HistoryIsOwn
    SnapshotCountsPages
    RetriesArePerPage
    CompletedIsComplete
PROPERTIES
    CompletionIsFinal
    LateAnswersIgnored
    FeedSpec
    EveryoneIsTold
