SPECIFICATION FairSpec
\* the run ends: nothing happens after the parent has exited
CHECK_DEADLOCK FALSE
CONSTANTS
    Configurations <- Padding
    mq_size = 3
    max_copying_jobs = 1
    MaxCrashes = 0
INVARIANT LogsInSpace
