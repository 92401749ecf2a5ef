SPECIFICATION FairSpec
CONSTANTS
    Calls = {c1, c2}
    Kinds <- AllKinds
    MaxErrors = 1
    Names = {a, b}
INVARIANTS
    NobodyStranded
    DoomedNeverRun
    OneGrant
    OneLostGrant
PROPERTIES
    LateRunsOnlyUnreliable
    ImplementsRpcCall
    EveryCallReturns
    DeadStops
CHECK_DEADLOCK FALSE
