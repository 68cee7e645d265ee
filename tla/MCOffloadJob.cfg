CONSTANTS
    shmCopy = shmCopy
    fileWrite = fileWrite
    NoJob = NoJob
    Jobs = {shmCopy, fileWrite}
    DrainJobs = {shmCopy}
    MortalJobs = {fileWrite}
    CounterSize = 2
    MaxRequests = 3
SPECIFICATION FairSpec
INVARIANTS
    TypeOK
    OnePassInFlight
    NoLostRequest
    NoLostWakeup
    NoTouchAfterDestroy
PROPERTIES
    JoinReturns
    KeepsPromise
CHECK_DEADLOCK FALSE
