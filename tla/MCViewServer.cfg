SPECIFICATION MCSpec
CONSTANTS
    Server = {s1, s2, s3}
    NoServer = NoServer
    DeadPings = 2
    MaxTick = 6
    MaxView = 6
SYMMETRY Symmetry
INVARIANTS
    CountersOrdered
    RolesConsistent
    FailoverInTime
PROPERTIES
    ImplementsViewSequence
    ImplementsViewAges
