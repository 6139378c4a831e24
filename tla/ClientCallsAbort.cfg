CONSTANTS
    Calls = {c1, c2}
    Sdks = {"typescript"}
    Operations = {"pull", "list", "search", "transfers", "transfer", "ack", "cancel"}
    Targets = {t1}
    Keys = {k1}
    NoKey = NoKey
    MaxResends = 0
CHECK_DEADLOCK FALSE
SPECIFICATION FairSpec
PROPERTIES
    AbortedPullReturns
