SPECIFICATION FairSpec
CONSTANTS
    Inits = {n1}
    MountLists <- OneMount
    Lower <- Capitals
    Faults = FALSE
CHECK_DEADLOCK FALSE
PROPERTIES
    TermStops
