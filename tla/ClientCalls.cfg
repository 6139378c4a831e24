CONSTANTS
    Calls = {c1, c2}
    Sdks = {"typescript", "rust", "dart"}
    Operations = {"put", "delete", "push", "pull", "create"}
    Targets = {t1}
    Keys = {k1}
    NoKey = NoKey
    MaxResends = 1
CHECK_DEADLOCK FALSE
SYMMETRY Symmetric
SPECIFICATION Spec
INVARIANTS
    TypeOK
    WritesHappenOnce
    RefusedOrAbortedIsClosed
PROPERTIES
    OutcomeSpec
