SPECIFICATION FairSpec
CONSTANTS
    Configurations <- ThreeSamplers
    mq_size = 5
INVARIANT EpochComplete
