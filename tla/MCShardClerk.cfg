SPECIFICATION FairSpec
CONSTANTS
    None = None
    Threads <- MCThreads
    Admin = "admin"
    op <- MCop
    NShards = 2
    Configs <- MCConfigs
    Masters <- MCMasters
    Dead <- MCDead
    Slots = {1, 2, 3, 4}
    MaxFaults = 1
INVARIANTS OnceUnlessLost FreshRounds
PROPERTIES ImplementsOps ConfigNeverBackward EveryOpReturns
CHECK_DEADLOCK FALSE
