SPECIFICATION Spec
CONSTANTS
    Ids = {i1, i2}
    Cmds = {c1, c2}
    Pids = {p1, p2}
    NoId = NoId
    NoCmd = NoCmd
    NoPid = NoPid
    Hazards = {"crash", "recycle", "detach"}
SYMMETRY Symmetry
INVARIANTS
    Tracked
    StoppedMeansDead
    StartFromCreated
    NeverCorrupt
PROPERTIES
    ImplementsOciLifecycle
