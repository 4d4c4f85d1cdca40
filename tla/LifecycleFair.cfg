SPECIFICATION FairSpec
CONSTANTS
    Ids = {i1}
    Cmds = {c1, c2}
    Pids = {p1, p2}
    NoId = NoId
    NoCmd = NoCmd
    NoPid = NoPid
    Hazards = {"recycle"}
INVARIANTS
    Confined
    StartFindsCgroup
    RunningIsAttended
PROPERTIES
    WaiterRecordsExit
    EveryEndIsRecorded
