\* Three map jobs are the fewest for which nchunk must be rounded up; with 8
\* bytes there are inputs of which each map job gets a part.
SPECIFICATION Spec
CONSTANTS
    a = a
    b = b
    nMap = 3
    nReduce = 2
    Key <- Words
    Part <- Hash
    LineWords <- Lines
    MaxToken = 4
    MaxLines = 4
    MaxBytes = 8
INVARIANTS
    ChunksWithinJobs
    FilesExist
    ResultComplete
    RegularRuns
    NothingLeft
PROPERTIES
    ImplementsRun
\* A run ends with CleanupFiles or log.Fatal.
CHECK_DEADLOCK FALSE
