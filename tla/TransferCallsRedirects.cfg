CONSTANTS
    Calls = {c1, c2}
    Operations = {"list", "get", "cancel"}
    Transfers = {t1}
    Keys = {k1}
    NoKey = NoKey
    Dispositions = {"acknowledged"}
    Supplied = "positive"
    OwnPolicy = {c2}
    MaxResends = 0
CHECK_DEADLOCK FALSE
SPECIFICATION Spec
INVARIANT RedirectsAreRefused
