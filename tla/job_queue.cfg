\* Jobs enqueued, canceled, retried, recovered, timed out: in process, and with a polling worker.
CONSTANTS
    NumJobs = 2
    MaxAttempts = 2
    Server = server
    Worker1 = w1
    Staffs <- MCStaffs
    Bound <- MCBound
    MaxPending = 1
    MaxRunning = 2
SPECIFICATION JobQueueFairSpec
INVARIANTS JobQueueTypeOK CompletedMeansRan StartsWithinBudget NoLostWakeup RunningIsHeld
PROPERTIES Lifecycle Settles
CHECK_DEADLOCK FALSE
