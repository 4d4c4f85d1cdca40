SPECIFICATION Spec
CONSTANTS
    Inits = {n1, n2}
    MountLists <- ExampleLists
    Lower <- Capitals
    Faults = TRUE
CHECK_DEADLOCK FALSE
SYMMETRY Symmetry
INVARIANTS
    TypeOK
    Inside
    MountsVisible
    ReadonlyHonoured
    PivotDirRemoved
    HostMountsUntouched
