SPECIFICATION Spec
CONSTANTS
    Worker = {w1, w2}
    NoWorker = NoWorker
    nMap = 2
    nReduce = 1
    RacesCaught = TRUE
CHECK_DEADLOCK FALSE
INVARIANT
    MasterNeverDies
