CONSTANTS
    Places <- MCPlaces
    Lines <- MCLines
    Sources <- MCSources
    EntryLimit = 1
    ModuleLimit = 2
    BodyLimit = 1
    FileLimit = 3
    MaxEdits = 2
SPECIFICATION Spec
INVARIANTS
    ScanIsRight
    FixesNeverBlock
CHECK_DEADLOCK FALSE
