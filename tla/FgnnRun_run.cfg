SPECIFICATION FairSpec
\* the run ends: nothing happens after the parent has exited
CHECK_DEADLOCK FALSE
CONSTANTS
    Configurations <- AllStarts
    mq_size = 3
    max_copying_jobs = 1
    MaxCrashes = 1
INVARIANT TypeOK
INVARIANT RankingReadReady
INVARIANT EpochComplete
INVARIANT PoolBounded
PROPERTY OneExtractor
PROPERTY RunSucceeds
PROPERTY FailureEndsRun
