SPECIFICATION SpecSystem
CONSTANTS
    Server = {s1, s2, s3}
    NoServer = NoServer
    NoReply = NoReply
    DeadPings = 2
    MaxFaults = 2
    LatePings = {"numbered"}
    Timely = FALSE
    MaxView = 4
SYMMETRY Symmetry
INVARIANTS
    ViewsAgree
    AckIsKnown
    AtMostOneServing
