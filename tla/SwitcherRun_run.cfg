SPECIFICATION FairSpec
CONSTANTS
    Configurations <- EvenAndOdd
    mq_size = 3
INVARIANT TypeOK
INVARIANT SwitchAfterSampler
INVARIANT TokensMatch
INVARIANT EpochComplete
PROPERTY RunEnds
