SPECIFICATION FairSpec
CONSTANTS
    Configurations <- TwoEpochs
    mq_size = 3
INVARIANT ParametersExchanged
