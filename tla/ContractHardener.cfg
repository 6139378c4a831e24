CONSTANTS
    Specs <- MCSpecs
    Additions <- MCAdditions
    MinimumTargets = 5
    Repositories <- MCRepositories
    OwnFiles <- MCOwnFiles
    Layouts <- MCLayouts
    Kebabs <- MCKebabs
    MaxEdits = 1
    MaxCrashes = 1
SPECIFICATION Spec
INVARIANTS
    TypeOK
    OwnDirectory
    BaselineIsWhole
    CIAccepts
PROPERTIES
    ProductPreserved
    SettledStays
    WriteEndsVerified
CHECK_DEADLOCK FALSE
