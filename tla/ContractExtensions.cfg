CONSTANTS
    Specs <- MCSpecs
    Additions <- MCAdditions
    MinimumTargets = 5
    Repositories <- MCRepositories
    OwnFiles <- MCOwnFiles
    Layouts <- MCLayouts
    Kebabs <- MCKebabs
    MaxEdits = 1
    MaxCrashes = 1
SPECIFICATION Spec
INVARIANT ContractTargetsAreUnique
CHECK_DEADLOCK FALSE
