SPECIFICATION Spec
CONSTANTS
    Ids = {i1}
    Cmds = {c1, c2, c3}
    Pids = {p1}
    NoId = NoId
    NoCmd = NoCmd
    NoPid = NoPid
    Hazards = {"overlap", "reuse", "detach"}
SYMMETRY Symmetry
INVARIANTS
    EmptyHasWriter
