CONSTANTS
    Calls = {c1, c2}
    Operations = {"create", "ack", "cancel"}
    Transfers = {t1}
    Keys = {k1}
    NoKey = NoKey
    Dispositions = {"acknowledged"}
    Supplied = "zero"
    OwnPolicy = {c2}
    MaxResends = 1
CHECK_DEADLOCK FALSE
SPECIFICATION FairSpec
INVARIANTS
    TypeOK
    SuccessIsApplied
    KeyAppliesOnce
    RefusedNeverApplied
PROPERTIES
    RepeatNeverConflicts
    OutcomeSpec
    EveryCallReturns
