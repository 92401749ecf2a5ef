SPECIFICATION FairSpec
CONSTANTS
    Worker = {w1, w2, w3}
    NoWorker = NoWorker
    nMap = 2
    nReduce = 2
    RacesCaught = TRUE
INVARIANTS
    WorkerInOnePlace
    WorkedIsRecorded
PROPERTIES
    ImplementsRun
    Completes
CHECK_DEADLOCK FALSE
