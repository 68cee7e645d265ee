CONSTANTS
    shmCopy = shmCopy
    fileWrite = fileWrite
    NoJob = NoJob
    Jobs = {shmCopy, fileWrite}
    DrainJobs = {shmCopy}
    MortalJobs = {shmCopy, fileWrite}
    CounterSize = 2
    MaxRequests = 3
SPECIFICATION Spec
INVARIANTS
    NoTouchAfterDestroy
CHECK_DEADLOCK FALSE
