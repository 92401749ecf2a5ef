SPECIFICATION FairSpec
CONSTANTS
    Server = {s1, s2, s3}
    NoServer = NoServer
    NoReply = NoReply
    DeadPings = 2
    MaxFaults = 2
    LatePings = {}
    Timely = TRUE
    MaxView = 7
PROPERTIES
    Failover
    BackupRemoved
    Recovers
