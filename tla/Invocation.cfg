SPECIFICATION Spec
CONSTANTS
    Dashed <- MCDashed
    Spelled <- MCSpelled
    Script <- MCScript
    Specs <- MCSpecs
    Id = "box"
    Dir = "dir"
    Nil = Nil
    NoMax = NoMax
CHECK_DEADLOCK FALSE
INVARIANTS
    TypeOK
    FollowsGrammar
    LimitsInForce
    RootAsVerified
