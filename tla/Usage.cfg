SPECIFICATION Spec
CONSTANTS
    Dashed <- MCDashed
    Spelled <- MCSpelled
    Script <- UsageScript
    Specs <- MCSpecs
    Id = "box"
    Dir = "dir"
    Nil = Nil
    NoMax = NoMax
CHECK_DEADLOCK FALSE
INVARIANT
    UsageWorks
