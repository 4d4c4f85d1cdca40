SPECIFICATION Spec
CONSTANTS
    Ids = {i1}
    Cmds = {c1}
    Pids = {p1}
    NoId = NoId
    NoCmd = NoCmd
    NoPid = NoPid
    Hazards = {"detach"}
PROPERTIES
    DetachedSurvives
