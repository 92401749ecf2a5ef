SPECIFICATION SpecSystem
CONSTANTS
    Server = {s1, s2}
    NoServer = NoServer
    NoReply = NoReply
    DeadPings = 2
    MaxFaults = 2
    LatePings = {"zero", "numbered"}
    Timely = FALSE
    MaxView = 4
INVARIANT
    AtMostOneServing
